---------------------------- MODULE Spec2Model ----------------------------
(***************************************************************************)
(* Topic clustering and priority assignment of pyq-analyzer.               *)
(*                                                                         *)
(* The model covers the stored TopicCluster rows, the Question rows with   *)
(* their topic_cluster link, and the two clustering services that rebuild  *)
(* the clusters of a subject:                                              *)
(*   - TopicClusterer         (services/clustering/topic_clusterer.py)     *)
(*   - TopicClusteringService (apps/analytics/clustering.py)               *)
(* together with TopicCluster.update_priority_tier, add_occurrence,        *)
(* update_cluster_priorities and the StatsCalculator reader.               *)
(***************************************************************************)
EXTENDS Integers, Sequences, FiniteSets, TLC

(***************************************************************************)
(* Bounds of the model.                                                    *)
(***************************************************************************)
MaxFreq == 4        \* add_occurrence is applied while frequency_count < MaxFreq
MaxTierFreq == 6    \* frequency counts 0..MaxTierFreq of the tier function
MaxThreshold == 4   \* threshold values 1..MaxThreshold of the tier function

(***************************************************************************)
(* The population: two subjects, four papers, eight questions.  A          *)
(* question's attributes are those of its text under the two normalizers   *)
(* of the repository (TextNormalizer.normalize and                         *)
(* TopicClusteringService._normalize_text).                                *)
(*                                                                         *)
(*  q1 "Explain the working of a full adder circuit with truth table"      *)
(*  q2 "Describe the working of full adder circuit using truth table"      *)
(*  q3 "Describe working of full adder circuit using truth table and       *)
(*      logic diagram"                                                     *)
(*  q4 "Derive the expression for the Carnot cycle efficiency"             *)
(*  q5 "Describe working of full adder circuit using truth table logic     *)
(*      gates with carry propagation delay analysis"                       *)
(*  q6 "State the second law of thermodynamics"                            *)
(*  q7 "What is entropy of a system"                                       *)
(*  q8 "Define entropy of a thermodynamic system"                          *)
(***************************************************************************)
Subjects == {"s1", "s2"}
Papers == 1..4
QIds == 1..8
NoModule == 0       \* module IS NULL
NoCluster == 0      \* topic_cluster IS NULL, priority_tier IS NULL

PaperSubject == <<"s1", "s1", "s1", "s2">>
PaperYear == <<2020, 2019, 2021, 2019>>
QPaper == <<1, 1, 2, 2, 3, 3, 4, 4>>
QModule == <<1, 1, 1, 2, 1, NoModule, 1, 1>>
\* rank of question_number in string order: "1" < "11a" < "2" < "3" < "4"
QNumber == <<1, 3, 1, 2, 4, 5, 1, 3>>
QTextLen == <<60, 60, 74, 53, 106, 38, 27, 40>>
QEmbedding == <<<<>>, <<>>, <<>>, <<>>, <<>>, <<>>, <<2, 1>>, <<1, 1>>>>

\* the texts of the questions and of two more that are only compared:
\* 9 "Explain entropy concept thermodynamics", 10 "(5 marks)"
TextIds == 1..10

SubjectModules(s) == IF s = "s1" THEN <<1, 2>> ELSE <<1>>
QSubject(q) == PaperSubject[QPaper[q]]
QYear(q) == PaperYear[QPaper[q]]

\* TextNormalizer.normalize(text), as the set of its words, and the string
normalize(q) ==
    CASE q = 1 -> {"working", "full", "adder", "circuit", "truth", "table"}
      [] q = 2 -> {"working", "full", "adder", "circuit", "using", "truth", "table"}
      [] q = 3 -> {"working", "full", "adder", "circuit", "using", "truth", "table",
                   "logic", "diagram"}
      [] q = 4 -> {"derive", "expression", "carnot", "cycle", "efficiency"}
      [] q = 5 -> {"working", "full", "adder", "circuit", "using", "truth", "table",
                   "logic", "gates", "carry", "propagation", "delay", "analysis"}
      [] q = 6 -> {"second", "law", "thermodynamics"}
      [] q = 7 -> {"entropy", "system"}
      [] q = 8 -> {"entropy", "thermodynamic", "system"}

\* TextNormalizer.create_topic_key(text): the first 50 characters of normalize(text)
create_topic_key(q) ==
    CASE q = 1 -> "working full adder circuit truth table"
      [] q = 2 -> "working full adder circuit using truth table"
      [] q = 3 -> "working full adder circuit using truth table logic"
      [] q = 4 -> "derive expression carnot cycle efficiency"
      [] q = 5 -> "working full adder circuit using truth table logic"
      [] q = 6 -> "second law thermodynamics"
      [] q = 7 -> "entropy system"
      [] q = 8 -> "entropy thermodynamic system"

VARIABLES
    papers,           \* papers whose Question rows exist
    topic_cluster,    \* Question.topic_cluster: question id -> cluster id
    normalized_text,  \* Question.normalized_text: question id -> set of words
    clusters,         \* the stored TopicCluster rows
    wk,               \* the clustering run of each worker
    last,             \* input and groups of the last run that returned
    tc,               \* a TopicCluster instance given to update_priority_tier
    call              \* a call of a function: its arguments and its result

vars == <<papers, topic_cluster, normalized_text, clusters, wk, last, tc, call>>

Workers == {"w1", "w2"}
Questions == {q \in QIds : QPaper[q] \in papers}
SubjectQuestions(s) == {q \in Questions : QSubject(q) = s}
SubjectClusters(s) == {c \in clusters : c.subject = s}
Members(c) == {q \in Questions : topic_cluster[q] = c.id}

(***************************************************************************)
(* Helpers on sequences.                                                   *)
(***************************************************************************)
Range(f) == {f[i] : i \in DOMAIN f}
SeqsOf(S) == {f \in [1..Cardinality(S) -> S] : Range(f) = S}
IndexOf(seq, x) == CHOOSE i \in DOMAIN seq : seq[i] = x
Min(S) == CHOOSE x \in S : \A y \in S : x <= y
Dot(a, b) == IF Len(a) = 2 /\ Len(b) = 2 THEN a[1] * b[1] + a[2] * b[2] ELSE 0

(***************************************************************************)
(* TopicCluster.update_priority_tier.  tier_thresholds is None or a dict   *)
(* that may lack any of the keys tier_1, tier_2, tier_3.                   *)
(***************************************************************************)
None == [none |-> TRUE]
TierKeys == {"tier_1", "tier_2", "tier_3"}
DefaultTierThresholds == [tier_1 |-> 4, tier_2 |-> 3, tier_3 |-> 2]
Get(d, k, default) == IF k \in DOMAIN d THEN d[k] ELSE default

update_priority_tier_gt(frequency_count, tier_thresholds) ==
    LET t == IF tier_thresholds = None THEN DefaultTierThresholds ELSE tier_thresholds
    IN  IF frequency_count > Get(t, "tier_1", 4) THEN 1
        ELSE IF frequency_count > Get(t, "tier_2", 3) THEN 2
        ELSE IF frequency_count > Get(t, "tier_3", 2) THEN 3
        ELSE 4

\* tier 1 only for a count equal to its threshold
update_priority_tier_eq(frequency_count, tier_thresholds) ==
    LET t == IF tier_thresholds = None THEN DefaultTierThresholds ELSE tier_thresholds
    IN  IF frequency_count = Get(t, "tier_1", 4) THEN 1
        ELSE IF frequency_count >= Get(t, "tier_2", 3) THEN 2
        ELSE IF frequency_count >= Get(t, "tier_3", 2) THEN 3
        ELSE 4

update_priority_tier(frequency_count, tier_thresholds) ==
    LET t == IF tier_thresholds = None THEN DefaultTierThresholds ELSE tier_thresholds
    IN  IF frequency_count >= Get(t, "tier_1", 4) THEN 1
        ELSE IF frequency_count >= Get(t, "tier_2", 3) THEN 2
        ELSE IF frequency_count >= Get(t, "tier_3", 2) THEN 3
        ELSE 4

\* Subject.get_tier_thresholds(): the thresholds configured for the subject
get_tier_thresholds(s) ==
    IF s = "s1" THEN DefaultTierThresholds
    ELSE [tier_1 |-> 3, tier_2 |-> 2, tier_3 |-> 2]

\* TopicCluster.calculate_priority_tier(tier_1, tier_2, tier_3)
calculate_priority_tier(frequency_count, t1, t2, t3) ==
    IF frequency_count >= t1 THEN 1
    ELSE IF frequency_count >= t2 THEN 2
    ELSE IF frequency_count >= t3 THEN 3
    ELSE 4

\* the arguments update_priority_tier is called with
TierThresholds == {None} \cup UNION {[K -> 1..MaxThreshold] : K \in SUBSET TierKeys}

UpdatePriorityTier ==
    /\ tc.priority_tier = NoCluster
    /\ tc' = [tc EXCEPT !.priority_tier =
                 update_priority_tier(tc.frequency_count, tc.tier_thresholds)]
    /\ UNCHANGED <<papers, topic_cluster, normalized_text, clusters, wk, last, call>>

(***************************************************************************)
(* Similarity of TopicClusterer.  A similarity is kept exact: a ratio      *)
(* num/den, or a cosine dot/sqrt(sq) clamped to [0, 1].                    *)
(***************************************************************************)
\* TopicClusterer(similarity_threshold=0.75), as percent
ClustererThreshold == 75

\* the overlap coefficient, |A /\ B| / min(|A|, |B|)
text_similarity_overlap(text1, text2) ==
    IF text1 = {} \/ text2 = {}
    THEN [kind |-> "ratio", num |-> 0, den |-> 1]
    ELSE [kind |-> "ratio", num |-> Cardinality(text1 \cap text2),
          den |-> Min({Cardinality(text1), Cardinality(text2)})]

text_similarity(text1, text2) ==
    IF text1 = {} \/ text2 = {}
    THEN [kind |-> "ratio", num |-> 0, den |-> 1]
    ELSE [kind |-> "ratio", num |-> Cardinality(text1 \cap text2),
          den |-> Cardinality(text1 \cup text2)]

\* _calculate_similarity on the embedding and normalized_text of two questions:
\* the cosine when both embeddings are non-empty lists of non-zero norm,
\* the Jaccard ratio of the texts otherwise
embedding_or_text(emb1, emb2, text1, text2) ==
    IF emb1 # <<>> /\ emb2 # <<>> /\ Dot(emb1, emb1) > 0 /\ Dot(emb2, emb2) > 0
    THEN [kind |-> "cosine", num |-> Dot(emb1, emb2), den |-> Dot(emb1, emb1) * Dot(emb2, emb2)]
    ELSE text_similarity(text1, text2)

\* the similarity computed from the stored normalized_text column
calculate_similarity_stored(q1, q2, norm) ==
    embedding_or_text(QEmbedding[q1], QEmbedding[q2], normalized_text[q1], normalized_text[q2])

calculate_similarity(q1, q2, norm) ==
    embedding_or_text(QEmbedding[q1], QEmbedding[q2], norm[q1], norm[q2])

\* similarity >= percent / 100
AtLeast(sim, percent) ==
    IF sim.kind = "ratio"
    THEN sim.num * 100 >= percent * sim.den
    ELSE IF sim.num <= 0 THEN percent <= 0
         ELSE sim.num * sim.num * 10000 >= percent * percent * sim.den

(***************************************************************************)
(* Similarity of TopicClusteringService (_are_similar): containment for    *)
(* short texts, fuzz.token_sort_ratio, Jaccard, embedding cosine.          *)
(***************************************************************************)
\* analyze_subject_topics(similarity_threshold=0.75, 4, 3, 2)
ServiceThreshold == 75
ServiceTier1 == 4
ServiceTier2 == 3
ServiceTier3 == 2
ShortText == 30

\* len(_normalize_text(text))
SvcNormLen == <<51, 53, 67, 41, 103, 31, 22, 35, 38, 0>>

\* _normalize_text(text), the string and its set of words
normalize_text(q) ==
    CASE q = 1 -> "explain working full adder circuit with truth table"
      [] q = 2 -> "describe working full adder circuit using truth table"
      [] q = 3 -> "describe working full adder circuit using truth table logic diagram"
      [] q = 4 -> "derive expression carnot cycle efficiency"
      [] q = 5 -> "describe working full adder circuit using truth table logic gates with carry propagation delay analysis"
      [] q = 6 -> "state second law thermodynamics"
      [] q = 7 -> "what is entropy system"
      [] q = 8 -> "define entropy thermodynamic system"
      [] q = 9 -> "explain entropy concept thermodynamics"
      [] q = 10 -> ""

SvcTokens(q) ==
    CASE q = 1 -> {"explain", "working", "full", "adder", "circuit", "with", "truth", "table"}
      [] q = 2 -> {"describe", "working", "full", "adder", "circuit", "using", "truth", "table"}
      [] q = 3 -> {"describe", "working", "full", "adder", "circuit", "using", "truth", "table",
                   "logic", "diagram"}
      [] q = 4 -> {"derive", "expression", "carnot", "cycle", "efficiency"}
      [] q = 5 -> {"describe", "working", "full", "adder", "circuit", "using", "truth", "table",
                   "logic", "gates", "with", "carry", "propagation", "delay", "analysis"}
      [] q = 6 -> {"state", "second", "law", "thermodynamics"}
      [] q = 7 -> {"what", "is", "entropy", "system"}
      [] q = 8 -> {"define", "entropy", "thermodynamic", "system"}
      [] q = 9 -> {"explain", "entropy", "concept", "thermodynamics"}
      [] q = 10 -> {}

\* norm1 in norm2 (substring), for different questions
IsSubstring(q1, q2) == q1 = q2 \/ q1 = 10 \/ <<q1, q2>> \in {<<2, 3>>, <<2, 5>>}

\* fuzz.token_sort_ratio(norm1, norm2), in tenths of a percent
token_sort_ratio == <<
    <<1000, 826, 728, 347, 623, 317, 273, 325, 382, 0>>,
    <<826, 1000, 883, 425, 679, 309, 266, 318, 307, 0>>,
    <<728, 883, 1000, 407, 694, 285, 247, 294, 285, 0>>,
    <<347, 425, 407, 1000, 375, 305, 253, 342, 405, 0>>,
    <<623, 679, 694, 375, 1000, 253, 224, 260, 255, 0>>,
    <<317, 309, 285, 305, 253, 1000, 339, 636, 608, 0>>,
    <<273, 266, 247, 253, 224, 339, 1000, 596, 466, 0>>,
    <<325, 318, 294, 342, 260, 636, 596, 1000, 712, 0>>,
    <<382, 307, 285, 405, 255, 608, 466, 712, 1000, 0>>,
    <<0, 0, 0, 0, 0, 0, 0, 0, 0, 1000>>>>

calculate_text_similarity(text1, text2) ==
    IF text1 = {} \/ text2 = {}
    THEN [kind |-> "ratio", num |-> 0, den |-> 1]
    ELSE [kind |-> "ratio", num |-> Cardinality(text1 \cap text2),
          den |-> Cardinality(text1 \cup text2)]

calculate_cosine_similarity(emb1, emb2) ==
    IF Dot(emb1, emb1) = 0 \/ Dot(emb2, emb2) = 0
    THEN [kind |-> "ratio", num |-> 0, den |-> 1]
    ELSE [kind |-> "cosine", num |-> Dot(emb1, emb2), den |-> Dot(emb1, emb1) * Dot(emb2, emb2)]

\* _are_similar on two questions with the texts q1, q2 and the embeddings
\* emb1, emb2, with self.similarity_threshold = threshold percent; rapidfuzz
\* tells whether `from rapidfuzz import fuzz` succeeds
are_similar_at(q1, q2, emb1, emb2, threshold, rapidfuzz) ==
    IF SvcNormLen[q1] < ShortText \/ SvcNormLen[q2] < ShortText
    THEN IsSubstring(q1, q2) \/ IsSubstring(q2, q1)
    ELSE \/ rapidfuzz /\ token_sort_ratio[q1][q2] >= threshold * 10
         \/ AtLeast(calculate_text_similarity(SvcTokens(q1), SvcTokens(q2)), threshold)
         \/ /\ emb1 # <<>>
            /\ emb2 # <<>>
            /\ AtLeast(calculate_cosine_similarity(emb1, emb2), threshold)

are_similar(q1, q2) ==
    are_similar_at(q1, q2, QEmbedding[q1], QEmbedding[q2], ServiceThreshold, TRUE)

(***************************************************************************)
(* State of a clustering run (one per worker).                             *)
(*   pc        idle | begun (questions exist) | scan | return (about to    *)
(*             return normally) | raise (an exception propagates)          *)
(*   kind      clusterer (TopicClusterer) | service (TopicClusteringService)*)
(*   snap      the evaluated question list, in order (the service          *)
(*             evaluates one list per module)                              *)
(*   norm      the normalized_text of the question objects in memory       *)
(*   assigned  the scan's assigned set                                     *)
(*   groups    the groups (cluster_questions lists) formed so far          *)
(*   mods      the modules the service has still to cluster                *)
(*   deleted   the run deleted at least one stored cluster                 *)
(*   created   the run stored at least one cluster                         *)
(*   dirty     Question rows of the subject were created or deleted        *)
(*             while the run was in progress                               *)
(*   old       the priority distribution of the subject when the run began *)
(*   read      a reader computed the distribution while the run was in     *)
(*             progress                                                    *)
(*   seen      the distribution that reader computed last                  *)
(***************************************************************************)
Distribution(cs) == [t \in 1..4 |-> Cardinality({c \in cs : c.priority_tier = t})]
NoDistribution == [t \in 1..4 |-> 0]

NewRun(kind, s) ==
    [pc |-> "begun", kind |-> kind, subject |-> s, snap |-> <<>>,
     norm |-> [q \in QIds |-> {}],
     assigned |-> {}, groups |-> <<>>, mods |-> <<>>, deleted |-> FALSE,
     created |-> FALSE, dirty |-> FALSE, old |-> NoDistribution,
     read |-> FALSE, seen |-> NoDistribution]

IdleRun == [NewRun("none", "s1") EXCEPT !.pc = "idle"]
Active(w) == wk[w].pc \in {"begun", "scan"}
InRun(w) == wk[w].pc # "idle"
NoRun == [kind |-> "none", snap |-> <<>>, groups |-> <<>>]
NoCall == [op |-> "none"]
NoTier == [frequency_count |-> 0, tier_thresholds |-> None, priority_tier |-> NoCluster]


\* no paper has been analysed and no clustering task has run
Stored ==
    /\ papers = {}
    /\ topic_cluster = [q \in QIds |-> NoCluster]
    /\ normalized_text = [q \in QIds |-> {}]
    /\ clusters = {}
    /\ wk = [w \in Workers |-> IdleRun]
    /\ last = NoRun

\* a TopicCluster instance and the argument of update_priority_tier
InitTier ==
    /\ Stored
    /\ tc \in [frequency_count : 0..MaxTierFreq, tier_thresholds : TierThresholds,
                priority_tier : {NoCluster}]
    /\ call = NoCall

Init ==
    /\ Stored
    /\ tc = NoTier
    /\ call = NoCall

(***************************************************************************)
(* Question rows come and go with their paper.                             *)
(***************************************************************************)
MarkDirty(s) ==
    [w \in Workers |-> IF InRun(w) /\ wk[w].subject = s
                       THEN [wk[w] EXCEPT !.dirty = TRUE] ELSE wk[w]]

\* AnalysisPipeline.analyze_paper, step 3: one Question row per extracted
\* question.  Row ids are fresh in the program; the model creates the rows
\* of a paper again only when no run still holds the earlier rows.
CreateQuestions(p) ==
    /\ p \notin papers
    /\ \A w \in Workers : InRun(w) =>
           \A q \in Range(wk[w].snap) : QPaper[q] # p
    /\ papers' = papers \cup {p}
    /\ wk' = MarkDirty(PaperSubject[p])
    /\ UNCHANGED <<topic_cluster, normalized_text, clusters, last, tc, call>>

\* A Paper row is deleted: Question.paper is on_delete=CASCADE, so its Question
\* rows go with it.  (A deletion that only marks the Paper row leaves the
\* questions; Spec, SpecOccurrence and SpecReader have no deletion.)
DeletePaper(p) ==
    /\ p \in papers
    /\ papers' = papers \ {p}
    /\ topic_cluster' = [q \in QIds |-> IF QPaper[q] = p THEN NoCluster ELSE topic_cluster[q]]
    /\ normalized_text' = [q \in QIds |-> IF QPaper[q] = p THEN {} ELSE normalized_text[q]]
    /\ wk' = MarkDirty(PaperSubject[p])
    /\ UNCHANGED <<clusters, last, tc, call>>

(***************************************************************************)
(* Both services: the exists() check, then the deletion of the subject's   *)
(* clusters.                                                               *)
(***************************************************************************)
\* the query of TopicClusterer.cluster_subject_questions (module__isnull=False)
ClustererQuestions(s) == {q \in SubjectQuestions(s) : QModule[q] # NoModule}

\* order_by('module__number', 'paper__year'); rows with equal keys come in any order
ClustererOrders(s) ==
    {o \in SeqsOf(ClustererQuestions(s)) :
        \A i, j \in DOMAIN o : i < j =>
            \/ QModule[o[i]] < QModule[o[j]]
            \/ QModule[o[i]] = QModule[o[j]] /\ QYear(o[i]) <= QYear(o[j])}

\* order_by('module__number', 'question_number') within one module
ServiceOrders(qs) ==
    {o \in SeqsOf(qs) : \A i, j \in DOMAIN o : i < j => QNumber[o[i]] <= QNumber[o[j]]}

Begin(w, kind, s) ==
    /\ wk[w].pc = "idle"
    /\ LET exists == IF kind = "clusterer" THEN ClustererQuestions(s) # {}
                     ELSE SubjectQuestions(s) # {}
       IN  wk' = [wk EXCEPT ![w] =
                    [NewRun(kind, s) EXCEPT !.pc = IF exists THEN "begun" ELSE "return",
                                            !.old = Distribution(SubjectClusters(s))]]
    /\ UNCHANGED <<papers, topic_cluster, normalized_text, clusters, last, tc, call>>

\* TopicCluster.objects.filter(subject=subject)
ClustersToDelete_all(s) == clusters

ClustersToDelete(s) == SubjectClusters(s)

\* TopicCluster.objects.filter(subject=subject).delete(); Question.topic_cluster
\* is on_delete=SET_NULL.  The clusterer then evaluates its question list.
ClearExistingClusters(w) ==
    /\ wk[w].pc = "begun"
    /\ LET s == wk[w].subject
           gone == ClustersToDelete(s)
           goneIds == {c.id : c \in gone}
       IN  /\ clusters' = clusters \ gone
           /\ topic_cluster' = [q \in QIds |-> IF topic_cluster[q] \in goneIds
                                                THEN NoCluster ELSE topic_cluster[q]]
           /\ IF wk[w].kind = "clusterer"
              THEN \E o \in ClustererOrders(s) :
                     wk' = [wk EXCEPT ![w] =
                              [@ EXCEPT !.pc = IF o = <<>> THEN "return" ELSE "scan",
                                        !.snap = o,
                                        !.norm = [q \in QIds |-> IF q \in Range(o)
                                                 THEN normalized_text[q] ELSE {}],
                                        !.deleted = (gone # {})]]
              ELSE wk' = [wk EXCEPT ![w] =
                            [@ EXCEPT !.pc = "scan",
                                      !.mods = SubjectModules(s) \o <<NoModule>>,
                                      !.deleted = (gone # {})]]
    /\ UNCHANGED <<papers, normalized_text, last, tc, call>>

(***************************************************************************)
(* TopicClusterer._cluster_module_questions: one step per seed.  The step  *)
(* that enters a module first normalizes the module's questions.           *)
(***************************************************************************)
\* The id of a new TopicCluster row.  Ids are fresh in the program; a run
\* creates one cluster per seed and only after it deleted the clusters of
\* its subject, so (worker, seed) names no other stored row.
ClusterId(w, seed) == seed + (IF w = "w1" THEN 0 ELSE Cardinality(QIds))

\* max(questions, key=lambda q: len(q.text)): the first of the longest
Representative(questions) ==
    questions[Min({k \in DOMAIN questions :
                     \A j \in DOMAIN questions :
                        QTextLen[questions[k]] >= QTextLen[questions[j]]})]

\* the part of a list of rows saved before the first save that raises
SavedBeforeError(rows) ==
    LET missing == {k \in DOMAIN rows : rows[k] \notin Questions}
    IN  IF missing = {} THEN Range(rows)
        ELSE {rows[k] : k \in 1..(Min(missing) - 1)}

\* lines 116-129: the seed and every later unassigned question similar to it
ClusterQuestions_any(questions, assigned, i, norm) ==
    LET q1 == questions[i]
        Similar(q2) == AtLeast(calculate_similarity(q1, q2, norm), ClustererThreshold)
    IN  <<q1>> \o SelectSeq(SubSeq(questions, i + 1, Len(questions)), Similar)

ClusterQuestions(questions, assigned, i, norm) ==
    LET q1 == questions[i]
        Similar(q2) == /\ q2 \notin assigned
                       /\ AtLeast(calculate_similarity(q1, q2, norm), ClustererThreshold)
    IN  <<q1>> \o SelectSeq(SubSeq(questions, i + 1, Len(questions)), Similar)

\* TopicClusterer._create_topic_cluster: the rows it stores and the questions it
\* links.  Any exception (the unique_together violation of create, a save of a
\* deleted Question row) is caught and logged.
create_topic_cluster(w, s, m, questions) ==
    LET representative == Representative(questions)
        normalized_key == create_topic_key(representative)
        years == {QYear(q) : q \in Range(questions)}
        frequency == Len(questions)
        cluster == [id |-> ClusterId(w, questions[1]), subject |-> s, module |-> m,
                    normalized_key |-> normalized_key,
                    frequency_count |-> frequency,
                    years_appeared |-> years,
                    priority_tier |-> update_priority_tier(frequency, get_tier_thresholds(s)),
                    representative |-> representative]
    IN  IF \E c \in clusters : /\ c.subject = s
                               /\ c.module = m
                               /\ c.normalized_key = normalized_key
        THEN [stored |-> {}, linked |-> {}, id |-> NoCluster]
        ELSE [stored |-> {cluster}, linked |-> SavedBeforeError(questions), id |-> cluster.id]

ClustererSeed(w) ==
    /\ wk[w].pc = "scan"
    /\ wk[w].kind = "clusterer"
    /\ LET r == wk[w]
           q1 == r.snap[Min({k \in DOMAIN r.snap : r.snap[k] \notin r.assigned})]
           InModule(q) == QModule[q] = QModule[q1]
           questions == SelectSeq(r.snap, InModule)
           entering == Range(questions) \cap r.assigned = {}
           Empty(q) == r.norm[q] = {}
           toSave == IF entering THEN SelectSeq(questions, Empty) ELSE <<>>
           saved == SavedBeforeError(toSave)
           norm == [q \in QIds |-> IF q \in Range(toSave) THEN normalize(q) ELSE r.norm[q]]
           group == ClusterQuestions(questions, r.assigned, IndexOf(questions, q1), norm)
           res == create_topic_cluster(w, r.subject, QModule[q1], group)
           assigned == r.assigned \cup Range(group)
       IN  /\ normalized_text' = [q \in QIds |-> IF q \in saved THEN normalize(q)
                                                  ELSE normalized_text[q]]
           /\ IF saved # Range(toSave)
              THEN /\ wk' = [wk EXCEPT ![w] = [r EXCEPT !.pc = "raise", !.norm = norm]]
                   /\ UNCHANGED <<clusters, topic_cluster>>
              ELSE /\ clusters' = clusters \cup res.stored
                   /\ topic_cluster' = [q \in QIds |-> IF q \in res.linked THEN res.id
                                                        ELSE topic_cluster[q]]
                   /\ wk' = [wk EXCEPT ![w] =
                               [r EXCEPT !.pc = IF Range(r.snap) \subseteq assigned
                                                THEN "return" ELSE "scan",
                                         !.norm = norm,
                                         !.assigned = assigned,
                                         !.groups = Append(r.groups, group),
                                         !.created = r.created \/ res.stored # {}]]
    /\ UNCHANGED <<papers, last, tc, call>>

(***************************************************************************)
(* TopicClusteringService._cluster_module_questions: one step per module,  *)
(* the clusters of a module are created in one transaction.atomic block.   *)
(***************************************************************************)
\* the seed and every question similar to it, processed or not
ServiceGroup_processed_ignored(questions, processed, q) ==
    LET Similar(other) == other # q /\ are_similar(q, other)
    IN  <<q>> \o SelectSeq(questions, Similar)

\* lines 110-117: the seed and every unprocessed question similar to it
ServiceGroup(questions, processed, q) ==
    LET Similar(other) == other \notin processed \cup {q} /\ are_similar(q, other)
    IN  <<q>> \o SelectSeq(questions, Similar)

RECURSIVE ServiceScan(_, _, _)
ServiceScan(questions, i, processed) ==
    IF i > Len(questions) THEN <<>>
    ELSE IF questions[i] \in processed THEN ServiceScan(questions, i + 1, processed)
    ELSE LET g == ServiceGroup(questions, processed, questions[i])
         IN  <<g>> \o ServiceScan(questions, i + 1, processed \cup Range(g))

\* TopicClusteringService._create_topic_cluster for the k-th group of a module
ServiceCluster(w, s, m, group) ==
    LET years == {QYear(q) : q \in Range(group)}
        frequency_count == Cardinality(years)
    IN  [id |-> ClusterId(w, group[1]), subject |-> s, module |-> m,
         normalized_key |-> normalize_text(group[1]),
         frequency_count |-> frequency_count,
         years_appeared |-> years,
         priority_tier |-> calculate_priority_tier(frequency_count, ServiceTier1,
                                                   ServiceTier2, ServiceTier3),
         representative |-> group[1]]

\* create() raises IntegrityError: module is NOT NULL, and (subject, module,
\* normalized_key) is unique
ServiceCreateFails(s, m, groups) ==
    \/ m = NoModule
    \/ \E k \in DOMAIN groups : \E c \in clusters :
          /\ c.subject = s
          /\ c.module = m
          /\ c.normalized_key = normalize_text(groups[k][1])
    \/ \E k, j \in DOMAIN groups :
          k # j /\ normalize_text(groups[k][1]) = normalize_text(groups[j][1])

ServiceModule(w) ==
    /\ wk[w].pc = "scan"
    /\ wk[w].kind = "service"
    /\ LET r == wk[w]
           s == r.subject
           m == Head(r.mods)
           qs == {q \in SubjectQuestions(s) : QModule[q] = m}
           next == IF Len(r.mods) = 1 THEN "return" ELSE "scan"
       IN  IF qs = {}
           THEN /\ wk' = [wk EXCEPT ![w] = [r EXCEPT !.pc = next, !.mods = Tail(r.mods)]]
                /\ UNCHANGED <<clusters, topic_cluster>>
           ELSE \E o \in ServiceOrders(qs) :
                  LET groups == ServiceScan(o, 1, {})
                      new == {ServiceCluster(w, s, m, groups[k]) : k \in DOMAIN groups}
                  IN  IF ServiceCreateFails(s, m, groups)
                      THEN /\ wk' = [wk EXCEPT ![w] =
                                       [r EXCEPT !.pc = "raise",
                                                 !.snap = r.snap \o o,
                                                 !.groups = r.groups \o groups]]
                           /\ UNCHANGED <<clusters, topic_cluster>>
                      ELSE /\ clusters' = clusters \cup new
                           /\ topic_cluster' =
                                [q \in QIds |->
                                   IF q \in qs
                                   THEN ClusterId(w, groups[CHOOSE k \in DOMAIN groups :
                                                        q \in Range(groups[k])][1])
                                   ELSE topic_cluster[q]]
                           /\ wk' = [wk EXCEPT ![w] =
                                       [r EXCEPT !.pc = next,
                                                 !.mods = Tail(r.mods),
                                                 !.snap = r.snap \o o,
                                                 !.groups = r.groups \o groups,
                                                 !.created = TRUE]]
    /\ UNCHANGED <<papers, normalized_text, last, tc, call>>


\* The run returns or raises: cluster_subject_questions line 79,
\* analyze_subject lines 79-82.  The task that called it ends.
Finish(w, record) ==
    /\ wk[w].pc \in {"return", "raise"}
    /\ wk' = [wk EXCEPT ![w] = IdleRun]
    /\ last' = IF record /\ wk[w].pc = "return"
               THEN [kind |-> wk[w].kind, snap |-> wk[w].snap, groups |-> wk[w].groups]
               ELSE last
    /\ UNCHANGED <<papers, topic_cluster, normalized_text, clusters, tc, call>>

(***************************************************************************)
(* TopicCluster.add_occurrence, TopicClusterer.update_cluster_priorities   *)
(* and the reader StatsCalculator.get_priority_distribution, whose result   *)
(* is recorded in the run it is concurrent with.                           *)
(***************************************************************************)
\* a year the caller may pass instead of the paper's
CallerYear == 2022

add_occurrence(c, q, year) ==
    LET y == IF year = 0 THEN QYear(q) ELSE year
    IN  [c EXCEPT !.frequency_count = c.frequency_count + 1,
                  !.years_appeared = c.years_appeared \cup {y},
                  !.representative = IF QTextLen[q] > QTextLen[c.representative]
                                     THEN q ELSE c.representative]

AddOccurrence(c, q, year) ==
    /\ c \in clusters
    /\ q \in SubjectQuestions(c.subject)
    /\ c.frequency_count < MaxFreq
    /\ clusters' = (clusters \ {c}) \cup {add_occurrence(c, q, year)}
    /\ UNCHANGED <<papers, topic_cluster, normalized_text, wk, last, tc, call>>

UpdateClusterPriorities(s) ==
    /\ clusters' = {IF c.subject = s
                    THEN [c EXCEPT !.priority_tier =
                            update_priority_tier(c.frequency_count, get_tier_thresholds(s))]
                    ELSE c : c \in clusters}
    /\ UNCHANGED <<papers, topic_cluster, normalized_text, wk, last, tc, call>>

get_priority_distribution(s) == Distribution(SubjectClusters(s))

ReadDistribution(s) ==
    /\ wk' = [w \in Workers |->
                IF Active(w) /\ wk[w].subject = s
                THEN [wk[w] EXCEPT !.read = TRUE, !.seen = get_priority_distribution(s)]
                ELSE wk[w]]
    /\ UNCHANGED <<papers, topic_cluster, normalized_text, clusters, last, tc, call>>

(***************************************************************************)
(* The specifications.  Spec runs the clustering tasks one at a time,      *)
(* SpecWorkers runs them on the two workers of Q_CLUSTER.                  *)
(***************************************************************************)
Kinds == {"clusterer", "service"}

Run(w, S) ==
    \/ \E kind \in Kinds, s \in S : Begin(w, kind, s)
    \/ ClearExistingClusters(w)
    \/ ClustererSeed(w)
    \/ ServiceModule(w)

Analyze(P) == \E p \in P : CreateQuestions(p)

Delete(P) == \E p \in P : DeletePaper(p)

\* the three papers of subject s1 are analysed, clustering runs one task at a
\* time, no row is deleted
Next == Analyze({1, 2, 3}) \/ Run("w1", {"s1"}) \/ Finish("w1", FALSE)

Spec == Init /\ [][Next]_vars

\* papers are analysed and deleted between and during runs, and the last run
\* that returned is remembered
NextRerun ==
    \/ Analyze({1, 2})
    \/ Delete({1, 2})
    \/ Run("w1", {"s1"})
    \/ Finish("w1", TRUE)

SpecRerun == Init /\ [][NextRerun]_vars

\* with add_occurrence and update_cluster_priorities
NextOccurrence ==
    \/ Analyze({1})
    \/ Run("w1", {"s1"})
    \/ Finish("w1", FALSE)
    \/ \E c \in clusters, q \in QIds, year \in {0, CallerYear} : AddOccurrence(c, q, year)
    \/ UpdateClusterPriorities("s1")

SpecOccurrence == Init /\ [][NextOccurrence]_vars

\* with a reader of the priority distribution
NextReader == Next \/ ReadDistribution("s1")

SpecReader == Init /\ [][NextReader]_vars

\* the two workers of Q_CLUSTER, each clustering one of the two subjects
NextWorkers ==
    \/ Analyze({1, 4})
    \/ Delete({1, 4})
    \/ Run("w1", {"s1"})
    \/ Run("w2", {"s2"})
    \/ \E w \in Workers : Finish(w, FALSE)

SpecWorkers == Init /\ [][NextWorkers]_vars

\* the two workers of Q_CLUSTER, both running cluster_subject_topics
\* (TopicClusterer) for subject s1, whose paper 1 is analysed; no row is deleted
NextSameSubject ==
    \/ Analyze({1})
    \/ \E w \in Workers :
          \/ Begin(w, "clusterer", "s1")
          \/ ClearExistingClusters(w)
          \/ ClustererSeed(w)
          \/ Finish(w, FALSE)

SpecSameSubject == Init /\ [][NextSameSubject]_vars

\* update_priority_tier alone, on every frequency count and thresholds argument
NextTier == UpdatePriorityTier

SpecTier == InitTier /\ [][NextTier]_vars

(***************************************************************************)
(* update_priority_tier on two clusters of one subject: the same           *)
(* tier_thresholds argument, two frequency counts.                         *)
(***************************************************************************)
TierPairCalls ==
    [op : {"update_priority_tier"}, tier_thresholds : TierThresholds,
     frequency_count : [1..2 -> 0..MaxTierFreq], priority_tier : {<<NoCluster, NoCluster>>}]

InitTierPair ==
    /\ Stored
    /\ tc = NoTier
    /\ call \in TierPairCalls

\* cluster k: cluster.update_priority_tier(tier_thresholds)
UpdateTierOf(k) ==
    /\ call.op = "update_priority_tier"
    /\ call.priority_tier[k] = NoCluster
    /\ call' = [call EXCEPT !.priority_tier[k] =
                   update_priority_tier(call.frequency_count[k], call.tier_thresholds)]
    /\ UNCHANGED <<papers, topic_cluster, normalized_text, clusters, wk, last, tc>>

NextTierPair == \E k \in 1..2 : UpdateTierOf(k)

SpecTierPair == InitTierPair /\ [][NextTierPair]_vars

(***************************************************************************)
(* The similarity functions applied to two questions: _calculate_similarity*)
(* and the test of line 127 (TopicClusterer) on embeddings and normalized  *)
(* texts, _are_similar (TopicClusteringService) on the texts of TextIds.   *)
(***************************************************************************)
MaxCoord == 2       \* embedding coordinates 0..MaxCoord

\* Question.embedding: None or [] (<<>>), or a vector
Embeddings == {<<>>} \cup {<<x, y>> : x, y \in 0..MaxCoord}

\* Question.normalized_text, as its set of words ({} is the empty string)
Texts ==
    {{}, {"entropy"}, {"entropy", "system"}, {"carnot", "cycle", "efficiency"},
     {"define", "entropy", "thermodynamic", "system"},
     {"explain", "entropy", "concept", "thermodynamics"}}

\* TopicClusteringService(similarity_threshold=0.3), as percent
ServiceDefaultThreshold == 30

\* the thresholds the two classes are constructed with
Thresholds == {ServiceDefaultThreshold, ClustererThreshold}

SimilarityCalls ==
    [op : {"calculate_similarity"}, emb1 : Embeddings, emb2 : Embeddings,
     text1 : Texts, text2 : Texts, threshold : Thresholds,
     done : {FALSE}, result : {None}, similar : {FALSE}, groups : {{}}]

\* the embeddings of the questions compared by _are_similar
ServiceEmbeddings == {<<>>, <<0, 0>>, <<1, 0>>, <<0, 1>>, <<1, 1>>}

AreSimilarCalls ==
    [op : {"are_similar"}, q1 : TextIds, q2 : TextIds, emb1 : ServiceEmbeddings,
     emb2 : ServiceEmbeddings, threshold : Thresholds, rapidfuzz : BOOLEAN,
     done : {FALSE}, similar : {FALSE}, groups : {{}}]

\* the groups of the list [q1, q2]: q1 is the seed and q2 joins it when it is
\* similar, else q2 is the seed of a second group
TwoQuestions(similar) == IF similar THEN {{1, 2}} ELSE {{1}, {2}}

InitSimilarity ==
    /\ Stored
    /\ tc = NoTier
    /\ call \in SimilarityCalls \cup AreSimilarCalls

\* similarity = self._calculate_similarity(q1, q2);
\* if similarity >= self.similarity_threshold
CalculateSimilarity ==
    /\ call.op = "calculate_similarity"
    /\ ~call.done
    /\ LET similarity == embedding_or_text(call.emb1, call.emb2, call.text1, call.text2)
           similar == AtLeast(similarity, call.threshold)
       IN  call' = [call EXCEPT !.done = TRUE, !.result = similarity,
                                !.similar = similar, !.groups = TwoQuestions(similar)]
    /\ UNCHANGED <<papers, topic_cluster, normalized_text, clusters, wk, last, tc>>

\* self._are_similar(q, other_q)
AreSimilar ==
    /\ call.op = "are_similar"
    /\ ~call.done
    /\ LET similar == are_similar_at(call.q1, call.q2, call.emb1, call.emb2,
                                     call.threshold, call.rapidfuzz)
       IN  call' = [call EXCEPT !.done = TRUE, !.similar = similar,
                                !.groups = TwoQuestions(similar)]
    /\ UNCHANGED <<papers, topic_cluster, normalized_text, clusters, wk, last, tc>>

NextSimilarity == CalculateSimilarity \/ AreSimilar

SpecSimilarity == InitSimilarity /\ [][NextSimilarity]_vars

(***************************************************************************)
(* TextNormalizer.normalize on texts written with the characters of        *)
(* Alphabet: a digit, a lower-case and an upper-case letter, the square    *)
(* brackets and the space.  A text is its sequence of characters.          *)
(***************************************************************************)
MaxTextLen == 7     \* texts of at most MaxTextLen characters

Alphabet == {"2", "x", "X", "[", "]", " "}
InputTexts == UNION {[1..n -> Alphabet] : n \in 0..MaxTextLen}

IsDigit(c) == c = "2"
IsSpace(c) == c = " "
\* the characters kept by [^\w\s\.\,\-]
IsKept(c) == c \in {"2", "x", "X", " "}

\* a few of STOPWORDS; none is written with the letters of Alphabet
STOPWORDS ==
    {<<"t", "h", "e">>, <<"a", "n", "d">>, <<"w", "h", "a", "t">>,
     <<"d", "e", "f", "i", "n", "e">>, <<"e", "x", "p", "l", "a", "i", "n">>}

\* text.lower()
lower(text) == [i \in DOMAIN text |-> IF text[i] = "X" THEN "x" ELSE text[i]]

\* re.sub(r'\d{4}', '', text)
RECURSIVE remove_years(_)
remove_years(text) ==
    IF Len(text) < 4 THEN text
    ELSE IF \A i \in 1..4 : IsDigit(text[i])
         THEN remove_years(SubSeq(text, 5, Len(text)))
         ELSE <<text[1]>> \o remove_years(Tail(text))

\* re.sub(r'\[[^\]]+\]', '', text): from a "[" to the first "]" after it,
\* with at least one character between them
RECURSIVE remove_brackets(_)
remove_brackets(text) ==
    IF text = <<>> THEN <<>>
    ELSE LET closing == {j \in 2..Len(text) : text[j] = "]"}
         IN  IF text[1] = "[" /\ closing # {} /\ Min(closing) >= 3
             THEN remove_brackets(SubSeq(text, Min(closing) + 1, Len(text)))
             ELSE <<text[1]>> \o remove_brackets(Tail(text))

\* the loop over REMOVE_PATTERNS, in their order.  The patterns of marks,
\* question numbers and months need letters that Alphabet does not have.
remove_patterns(text) == remove_brackets(remove_years(text))

\* re.sub(r'[^\w\s\.\,\-]', ' ', text)
replace_special(text) == [i \in DOMAIN text |-> IF IsKept(text[i]) THEN text[i] ELSE " "]

\* re.sub(r'\s+', ' ', text)
RECURSIVE collapse_whitespace(_)
collapse_whitespace(text) ==
    IF Len(text) < 2 THEN text
    ELSE IF IsSpace(text[1]) /\ IsSpace(text[2]) THEN collapse_whitespace(Tail(text))
         ELSE <<text[1]>> \o collapse_whitespace(Tail(text))

\* text.split()
RECURSIVE split(_)
split(text) ==
    IF text = <<>> THEN <<>>
    ELSE IF IsSpace(text[1]) THEN split(Tail(text))
         ELSE LET spaces == {j \in 1..Len(text) : IsSpace(text[j])}
                  end == IF spaces = {} THEN Len(text) + 1 ELSE Min(spaces)
              IN  <<SubSeq(text, 1, end - 1)>> \o split(SubSeq(text, end, Len(text)))

\* ' '.join(words)
RECURSIVE join(_)
join(words) ==
    IF words = <<>> THEN <<>>
    ELSE IF Len(words) = 1 THEN words[1]
         ELSE words[1] \o <<" ">> \o join(Tail(words))

KeptWord(w) == w \notin STOPWORDS /\ Len(w) > 2

\* TextNormalizer.normalize(text)
TextNormalizer_normalize(text) ==
    IF text = <<>> THEN <<>>
    ELSE LET cleaned == collapse_whitespace(replace_special(remove_patterns(lower(text))))
         IN  join(SelectSeq(split(cleaned), KeptWord))

NormalizeCalls ==
    [op : {"normalize"}, text : InputTexts, pc : {0}, once : {<<>>}, twice : {<<>>}]

InitNormalize ==
    /\ Stored
    /\ tc = NoTier
    /\ call \in NormalizeCalls

\* normalize(text), and normalize applied to what it returned
Normalize ==
    /\ call.op = "normalize"
    /\ call.pc < 2
    /\ call' = IF call.pc = 0
               THEN [call EXCEPT !.pc = 1, !.once = TextNormalizer_normalize(call.text)]
               ELSE [call EXCEPT !.pc = 2, !.twice = TextNormalizer_normalize(call.once)]
    /\ UNCHANGED <<papers, topic_cluster, normalized_text, clusters, wk, last, tc>>

NextNormalize == Normalize

SpecNormalize == InitNormalize /\ [][NextNormalize]_vars

(***************************************************************************)
(* The exam pattern lookups: get_module_from_question(question_number,     *)
(* part, pattern) and ExamPattern.get_module_for_question(question_number, *)
(* part).  A question number is its sequence of characters; the result     *)
(* None is NoModule.                                                       *)
(***************************************************************************)
MaxNumberLen == 3   \* question numbers of at most MaxNumberLen characters

NumberChars == {"0", "1", "2", "a", "b"}
QuestionNumbers == UNION {[1..n -> NumberChars] : n \in 0..MaxNumberLen}
Parts == {"A", "B", "a", "C", ""}

\* KTU_STANDARD_PATTERN["part_a"]["questions"], ["part_b"]["questions"]
KtuPartA ==
    (<<"1">> :> 1 @@ <<"2">> :> 1 @@ <<"3">> :> 2 @@ <<"4">> :> 2
     @@ <<"5">> :> 3 @@ <<"6">> :> 3 @@ <<"7">> :> 4 @@ <<"8">> :> 4
     @@ <<"9">> :> 5 @@ <<"1", "0">> :> 5)
KtuPartB ==
    (<<"1", "1">> :> 1 @@ <<"1", "2">> :> 1 @@ <<"1", "3">> :> 2 @@ <<"1", "4">> :> 2
     @@ <<"1", "5">> :> 3 @@ <<"1", "6">> :> 3 @@ <<"1", "7">> :> 4 @@ <<"1", "8">> :> 4
     @@ <<"1", "9">> :> 5 @@ <<"2", "0">> :> 5)

KTU_STANDARD_PATTERN ==
    [name |-> "KTU Standard Pattern",
     part_a |-> [marks_per_question |-> 3, questions |-> KtuPartA],
     part_b |-> [marks_per_question |-> 14, questions |-> KtuPartB]]

\* the pattern dicts given to get_module_from_question: the standard one, one
\* without part_b, one whose part_b has no "questions", the empty dict
PatternDicts ==
    {KTU_STANDARD_PATTERN,
     [name |-> "part a only", part_a |-> [marks_per_question |-> 3, questions |-> KtuPartA]],
     [name |-> "no questions", part_a |-> [marks_per_question |-> 3, questions |-> KtuPartA],
      part_b |-> [marks_per_question |-> 14]],
     <<>>}

\* ExamPattern.pattern_config: get_default_ktu_pattern(), one without part_b,
\* the default dict()
PatternConfigs ==
    {[part_a |-> KtuPartA, part_b |-> KtuPartB], [part_a |-> KtuPartA], <<>>}

\* f"part_{part.lower()}"
part_key(part) ==
    CASE part \in {"A", "a"} -> "part_a"
      [] part \in {"B", "b"} -> "part_b"
      [] part \in {"C", "c"} -> "part_c"
      [] part = "" -> "part_"

IsNumberDigit(c) == c \in {"0", "1", "2"}

\* re.match(r'(\d+)', str(question_number)): the digits the number starts with
\* (<<>>: no match)
RECURSIVE match_digits(_)
match_digits(question_number) ==
    IF question_number = <<>> \/ ~IsNumberDigit(question_number[1]) THEN <<>>
    ELSE <<question_number[1]>> \o match_digits(Tail(question_number))

\* the lookup with the whole question_number as key
get_module_from_question_whole(question_number, part, pattern) ==
    IF part_key(part) \notin DOMAIN pattern THEN NoModule
    ELSE Get(Get(pattern[part_key(part)], "questions", <<>>), question_number, NoModule)

get_module_from_question(question_number, part, pattern) ==
    LET q_num == match_digits(question_number)
    IN  IF q_num = <<>> THEN NoModule
        ELSE IF part_key(part) \notin DOMAIN pattern THEN NoModule
        ELSE Get(Get(pattern[part_key(part)], "questions", <<>>), q_num, NoModule)

get_module_for_question(question_number, part, pattern_config) ==
    LET q_num == match_digits(question_number)
    IN  IF q_num = <<>> THEN NoModule
        ELSE IF part_key(part) \in DOMAIN pattern_config
        THEN Get(pattern_config[part_key(part)], q_num, NoModule)
        ELSE NoModule

ResolveCalls ==
    [op : {"get_module_from_question"}, question_number : QuestionNumbers, part : Parts,
     given : PatternDicts, done : {FALSE}, pattern : {<<>>}, result : {NoModule}]
    \cup
    [op : {"get_module_for_question"}, question_number : QuestionNumbers, part : Parts,
     given : PatternConfigs, done : {FALSE}, pattern : {<<>>}, result : {NoModule}]

InitResolve ==
    /\ Stored
    /\ tc = NoTier
    /\ call \in ResolveCalls

\* the call returns; pattern is the dict as the call leaves it
GetModuleFromQuestion ==
    /\ call.op = "get_module_from_question"
    /\ ~call.done
    /\ call' = [call EXCEPT !.done = TRUE, !.pattern = call.given,
                  !.result = get_module_from_question(call.question_number, call.part,
                                                      call.given)]
    /\ UNCHANGED <<papers, topic_cluster, normalized_text, clusters, wk, last, tc>>

GetModuleForQuestion ==
    /\ call.op = "get_module_for_question"
    /\ ~call.done
    /\ call' = [call EXCEPT !.done = TRUE, !.pattern = call.given,
                  !.result = get_module_for_question(call.question_number, call.part,
                                                     call.given)]
    /\ UNCHANGED <<papers, topic_cluster, normalized_text, clusters, wk, last, tc>>

NextResolve == GetModuleFromQuestion \/ GetModuleForQuestion

SpecResolve == InitResolve /\ [][NextResolve]_vars

(***************************************************************************)
(* QuestionExtractor.extract_questions.  A text is a sequence of atoms, an *)
(* atom is a piece of text that the patterns of the extractor take or      *)
(* leave as a whole:                                                       *)
(*   num v     the number v written with one or two digits                 *)
(*   word v    a word of v letters, the first one a capital ("What",       *)
(*             "Explanations"), none of the words the patterns name        *)
(*   marks     the word "marks"                                            *)
(*   lower v   a word of v lower-case letters, two or more ("entropy")     *)
(*   sub       the single lower-case letter "a"                            *)
(*   dot ".", lpar "(", rpar ")", qm "?", sp " ", nl "\n"                  *)
(*   parta "PART A", partb "PART B", module v "Module v" ("Module -v" in   *)
(*   the example paper, where no stored text holds it)                     *)
(***************************************************************************)
Atom(k, v) == [k |-> k, v |-> v]

\* \s, [\.\)], [A-Za-z] at the start of the atom, [A-Z] somewhere in the atom
IsWs(a) == a.k \in {"sp", "nl"}
IsLetter(a) == a.k \in {"word", "lower", "marks", "sub", "parta", "partb", "module"}
HasUpper(a) == a.k \in {"word", "parta", "partb", "module"}

\* len(text)
AtomLen(a) ==
    CASE a.k = "num" -> IF a.v < 10 THEN 1 ELSE 2
      [] a.k \in {"word", "lower"} -> a.v
      [] a.k = "marks" -> 5
      [] a.k \in {"parta", "partb"} -> 6
      [] a.k = "module" -> 8
      [] OTHER -> 1

RECURSIVE TextLen(_)
TextLen(text) == IF text = <<>> THEN 0 ELSE AtomLen(text[1]) + TextLen(Tail(text))

Last(text) == text[Len(text)]
Front(text) == SubSeq(text, 1, Len(text) - 1)

\* text.strip()
RECURSIVE LStrip(_)
LStrip(text) == IF text # <<>> /\ IsWs(text[1]) THEN LStrip(Tail(text)) ELSE text
RECURSIVE RStrip(_)
RStrip(text) == IF text # <<>> /\ IsWs(Last(text)) THEN RStrip(Front(text)) ELSE text
Strip(text) == LStrip(RStrip(text))

\* ' '.join(text.split()), re.sub(r'\s+', ' ', text).strip()
RECURSIVE Collapse(_)
Collapse(text) ==
    IF text = <<>> THEN <<>>
    ELSE IF ~IsWs(text[1]) THEN <<text[1]>> \o Collapse(Tail(text))
    ELSE IF Len(text) > 1 /\ IsWs(text[2]) THEN Collapse(Tail(text))
    ELSE <<Atom("sp", 0)>> \o Collapse(Tail(text))
JoinWs(text) == Collapse(Strip(text))

\* the first index from i on whose atom is not of the kinds ks (Len + 1: none)
RECURSIVE Skip(_, _, _)
Skip(text, i, ks) ==
    IF i <= Len(text) /\ text[i].k \in ks THEN Skip(text, i + 1, ks) ELSE i
Ws == {"sp", "nl"}
Punct == {"dot", "rpar"}

\* a question dict; question_number is the number and the sub-part letter
\* ("" or "a"), module_hint None is NoModule
Question(q_num, sub, text, marks, part, module_hint) ==
    [question_number |-> <<q_num, sub>>, text |-> text, marks |-> marks, part |-> part,
     module_hint |-> module_hint]

\* the text ends with an atom of kind k; the text without such a last atom
EndsWith(text, k) == text # <<>> /\ Last(text).k = k
DropLast(text, k) == IF EndsWith(text, k) THEN Front(text) ELSE text

\* the first index from i on after \s*[\.\)]*\s*
SkipGap(text, i) == Skip(text, Skip(text, Skip(text, i, Ws), Punct), Ws)

\* re.search(r'\(?\s*(\d{1,2})\s*marks?\)?\s*$', q_text): the number and
\* q_text[:marks_match.start()]
marks_match(q_text) ==
    LET NoMatch == [found |-> FALSE, marks |-> 0, before |-> q_text]
        AtNumber(c) ==
            IF EndsWith(c, "num")
            THEN [found |-> TRUE, marks |-> Last(c).v,
                  before |-> DropLast(RStrip(Front(c)), "lpar")]
            ELSE NoMatch
        AtMarks(b) == IF EndsWith(b, "marks") THEN AtNumber(RStrip(Front(b))) ELSE NoMatch
    IN  AtMarks(DropLast(RStrip(q_text), "rpar"))

\* re.search(r'\s+(\d{1,2})\s*$', q_text); with parens, r'\s+\(?\d{1,2}\)?\s*$'
trailing_number(q_text, parens) ==
    LET NoMatch == [found |-> FALSE, marks |-> 0, before |-> q_text]
        Before(m, d) ==
            IF d # <<>> /\ IsWs(Last(d))
            THEN [found |-> TRUE, marks |-> m, before |-> RStrip(d)]
            ELSE NoMatch
        AtNumber(b) ==
            IF EndsWith(b, "num")
            THEN Before(Last(b).v, IF parens THEN DropLast(Front(b), "lpar") ELSE Front(b))
            ELSE NoMatch
    IN  AtNumber(IF parens THEN DropLast(RStrip(q_text), "rpar") ELSE RStrip(q_text))

\* len(q_text) >= 10 and re.match(r'^[A-Za-z]', q_text)
MinTextLen == 10
Accepted(q_text) == TextLen(q_text) >= MinTextLen /\ q_text # <<>> /\ IsLetter(q_text[1])

\* _extract_part_a: the section between "PART A" and the first "PART B" or
\* "Module 1", "Module I", ...
IsPartAEnd(a) == a.k = "partb" \/ (a.k = "module" /\ (a.v = 1 \/ a.v \in 10..19))

\* the section from the start of the text when there is no "PART A"
part_a_match_from_start(text) ==
    LET To(from, ends) ==
            IF ends = {} THEN [found |-> FALSE, text |-> <<>>]
            ELSE [found |-> TRUE, text |-> SubSeq(text, from + 1, Min(ends) - 1)]
        From(from) == To(from, {j \in DOMAIN text : j > from /\ IsPartAEnd(text[j])})
        At(starts) == From(IF starts = {} THEN 0 ELSE Min(starts))
    IN  At({i \in DOMAIN text : text[i].k = "parta"})

part_a_match(text) ==
    LET To(from, ends) ==
            IF ends = {} THEN [found |-> FALSE, text |-> <<>>]
            ELSE [found |-> TRUE, text |-> SubSeq(text, from + 1, Min(ends) - 1)]
        From(from) == To(from, {j \in DOMAIN text : j > from /\ IsPartAEnd(text[j])})
        At(starts) ==
            IF starts = {} THEN [found |-> FALSE, text |-> <<>>] ELSE From(Min(starts))
    IN  At({i \in DOMAIN text : text[i].k = "parta"})

\* a match of r'(\d{1,2})[\.\)]*\s+([A-Za-z])' starts at i
QStartAt(text, i) ==
    LET AtLetter(l) == l <= Len(text) /\ IsLetter(text[l])
        AtWs(p) == p < Len(text) /\ IsWs(text[p]) /\ AtLetter(Skip(text, p, Ws))
    IN  text[i].k = "num" /\ AtWs(Skip(text, i + 1, Punct))

\* re.sub(r'^\d{1,2}[\.\)]*\s+', '', q_text)
strip_number(q_text) ==
    LET AtWs(p) ==
            IF p <= Len(q_text) /\ IsWs(q_text[p])
            THEN SubSeq(q_text, Skip(q_text, p, Ws), Len(q_text))
            ELSE q_text
    IN  IF q_text # <<>> /\ q_text[1].k = "num" THEN AtWs(Skip(q_text, 2, Punct)) ELSE q_text

\* the loop body without the acceptance test
part_a_question_unchecked(q_num, span) ==
    LET Result(marks, text) ==
            [accept |-> TRUE, question |-> Question(q_num, "", text, marks, "A", NoModule)]
        AfterMarks(mm) ==
            Result(IF mm.found THEN mm.marks ELSE 3,
                   Strip(trailing_number(Strip(mm.before), TRUE).before))
    IN  AfterMarks(marks_match(strip_number(Strip(span))))

\* the body of the loop over q_starts (lines 184-218): the marks value is
\* stored as it is found, then a trailing number is removed
part_a_question(q_num, span) ==
    LET Result(marks, text) ==
            [accept |-> Accepted(text),
             question |-> Question(q_num, "", text, marks, "A", NoModule)]
        AfterMarks(mm) ==
            Result(IF mm.found THEN mm.marks ELSE 3,
                   Strip(trailing_number(Strip(mm.before), TRUE).before))
    IN  AfterMarks(marks_match(strip_number(Strip(span))))

RECURSIVE PartAFrom(_, _)
PartAFrom(text, i) ==
    LET Keep(q) == IF text[i].v > 10 \/ ~q.accept THEN <<>> ELSE <<q.question>>
        To(end) ==
            Keep(part_a_question(text[i].v, SubSeq(text, i, end - 1))) \o PartAFrom(text, end)
        Until(later) == To(IF later = {} THEN Len(text) + 1 ELSE Min(later))
    IN  IF i > Len(text) THEN <<>>
        ELSE IF ~QStartAt(text, i) THEN PartAFrom(text, i + 1)
        ELSE Until({j \in (i + 1)..Len(text) : QStartAt(text, j)})

extract_part_a(text) ==
    LET Of(m) == IF ~m.found THEN <<>> ELSE PartAFrom(JoinWs(m.text), 1)
    IN  Of(part_a_match(text))

\* _extract_part_b.  The sub-question pattern
\* (\d{1,2})\s*[\.\)]*\s*([a-z])\s*[\.\)]*\s+([A-Za-z][^0-9]*?)(?=\s+\d{1,2}\s*[\.\)]*\s*[a-z]|$)
\* the lookahead at p: the end of the text, or white space, a number and a letter
SubQLookahead(text, p) ==
    LET AtLetter(l) == l <= Len(text) /\ IsLetter(text[l])
        AtNumber(n) == n <= Len(text) /\ text[n].k = "num" /\ AtLetter(SkipGap(text, n + 1))
    IN  \/ p = Len(text) + 1
        \/ p < Len(text) /\ IsWs(text[p]) /\ AtNumber(Skip(text, p, Ws))

\* the match that starts at i: found, the sub-part, the text and the end;
\* \s*[\.\)]*\s+ has matched up to t when the atom before t is white space
sub_q_match(text, i) ==
    LET NoMatch == [found |-> FALSE, sub |-> "", text |-> <<>>, end |-> i + 1]
        Text(t, ends) ==
            IF ends # {}
            THEN [found |-> TRUE, sub |-> "a", text |-> SubSeq(text, t, Min(ends) - 1),
                  end |-> Min(ends)]
            ELSE NoMatch
        AtText(s, t) ==
            IF t > s + 1 /\ IsWs(text[t - 1]) /\ t <= Len(text) /\ IsLetter(text[t])
            THEN Text(t, {p \in (t + 1)..(Len(text) + 1) :
                             /\ \A j \in t..(p - 1) : text[j].k # "num"
                             /\ SubQLookahead(text, p)})
            ELSE NoMatch
        AtSub(s) ==
            IF s <= Len(text) /\ text[s].k = "sub" THEN AtText(s, SkipGap(text, s + 1))
            ELSE NoMatch
    IN  IF text[i].k = "num" THEN AtSub(SkipGap(text, i + 1)) ELSE NoMatch

\* the marks of a Part B or fallback question: "N marks" with N <= 14, else a
\* number at the end with N <= 14, else None (NoMarks)
MaxMarks == 14
NoMarks == 0 - 1
capped_marks(q_text) ==
    LET Second(tn) ==
            IF tn.found /\ tn.marks <= MaxMarks
            THEN [marks |-> tn.marks, text |-> Strip(tn.before)]
            ELSE [marks |-> NoMarks, text |-> q_text]
        First(mm) ==
            IF mm.found /\ mm.marks <= MaxMarks
            THEN [marks |-> mm.marks, text |-> Strip(mm.before)]
            ELSE Second(trailing_number(q_text, FALSE))
    IN  First(marks_match(q_text))

DefaultMarksA == 3
DefaultMarksB == 7

\* the body of the loop over the sub-question matches (lines 266-307)
part_b_question(q_num, sub, q_text, mod_num) ==
    LET Result(cm) ==
            [accept |-> Accepted(Strip(cm.text)),
             question |-> Question(q_num, sub, Strip(cm.text),
                                   IF cm.marks # NoMarks /\ cm.marks # 0 THEN cm.marks
                                   ELSE DefaultMarksB,
                                   "B", mod_num)]
    IN  Result(capped_marks(JoinWs(q_text)))

RECURSIVE SubQFrom(_, _, _)
SubQFrom(text, i, mod_num) ==
    LET Keep(q) == IF q.accept THEN <<q.question>> ELSE <<>>
        Step(m) ==
            IF ~m.found THEN SubQFrom(text, i + 1, mod_num)
            ELSE Keep(part_b_question(text[i].v, m.sub, m.text, mod_num))
                    \o SubQFrom(text, m.end, mod_num)
    IN  IF i > Len(text) THEN <<>> ELSE Step(sub_q_match(text, i))

\* the content of a module section, cut at the first "PART X"
module_content(content) ==
    LET Cut(parts) ==
            JoinWs(IF parts = {} THEN content ELSE SubSeq(content, 1, Min(parts) - 1))
    IN  Cut({j \in DOMAIN content : content[j].k \in {"parta", "partb"}})

\* re.split on the module markers, then the loop over the sections
RECURSIVE extract_part_b_from(_, _)
extract_part_b_from(text, i) ==
    LET Section(m, end) ==
            SubQFrom(module_content(SubSeq(text, m + 1, end - 1)), 1, text[m].v)
                \o extract_part_b_from(text, end)
        To(m, later) == Section(m, IF later = {} THEN Len(text) + 1 ELSE Min(later))
        At(m) == To(m, {j \in (m + 1)..Len(text) : text[j].k = "module"})
        From(mods) == IF mods = {} THEN <<>> ELSE At(Min(mods))
    IN  From({j \in i..Len(text) : text[j].k = "module"})

extract_part_b(text) == extract_part_b_from(text, 1)

\* text.split('\n')
RECURSIVE SplitLines(_)
SplitLines(text) ==
    LET At(nls) ==
            IF nls = {} THEN <<text>>
            ELSE <<SubSeq(text, 1, Min(nls) - 1)>>
                    \o SplitLines(SubSeq(text, Min(nls) + 1, Len(text)))
    IN  At({j \in DOMAIN text : text[j].k = "nl"})

\* '\n'.join(lines)
RECURSIVE JoinLines(_)
JoinLines(lines) ==
    IF lines = <<>> THEN <<>>
    ELSE IF Len(lines) = 1 THEN lines[1]
    ELSE lines[1] \o <<Atom("nl", 0)>> \o JoinLines(Tail(lines))

\* _clean_text: the lines stripped, without the empty lines and the lines of
\* punctuation only (the other skip patterns name words no line here has)
RECURSIVE clean_lines(_)
clean_lines(lines) ==
    LET Keep(line) ==
            IF line = <<>> \/ \A j \in DOMAIN line : line[j].k \in {"dot", "sp"}
            THEN <<>> ELSE <<line>>
    IN  IF lines = <<>> THEN <<>>
        ELSE Keep(Strip(lines[1])) \o clean_lines(Tail(lines))
clean_text(text) == JoinLines(clean_lines(SplitLines(text)))

\* _fallback_extraction.  A following line ends the question when it starts a
\* new one, r'^(\d{1,2})\s*[a-z]?\s*\)?.*[A-Z]', or a section,
\* r'^(Module|PART)\s'
EndsQuestion(next_line) ==
    /\ next_line # <<>>
    /\ \/ next_line[1].k = "num" /\ \E j \in 2..Len(next_line) : HasUpper(next_line[j])
       \/ next_line[1].k \in {"module", "parta", "partb"}

\* the lines from j on that continue the question: the text they add and the
\* line after them
RECURSIVE Continuation(_, _)
Continuation(lines, j) ==
    LET Add(next_line, rest) ==
            [text |-> (IF next_line = <<>> THEN <<>> ELSE <<Atom("sp", 0)>> \o next_line)
                         \o rest.text,
             next |-> rest.next]
    IN  IF j > Len(lines) \/ EndsQuestion(Strip(lines[j])) THEN [text |-> <<>>, next |-> j]
        ELSE Add(Strip(lines[j]), Continuation(lines, j + 1))

\* r'^(\d{1,2})\s*([a-z])?\s*[\.\)]*\s*(.+)' on a line that starts with a number
\* followed by a dot or by a sub-part letter
q_match(line) ==
    LET NoMatch == [found |-> FALSE, q_num |-> 0, sub |-> "", text |-> <<>>]
        Text(sub, t) ==
            IF t <= Len(line)
            THEN [found |-> TRUE, q_num |-> line[1].v, sub |-> sub,
                  text |-> SubSeq(line, t, Len(line))]
            ELSE NoMatch
        AtSub(s) ==
            IF s <= Len(line) /\ line[s].k = "sub" THEN Text("a", SkipGap(line, s + 1))
            ELSE Text("", SkipGap(line, s))
    IN  IF line[1].k = "num" THEN AtSub(Skip(line, 2, Ws)) ELSE NoMatch

fallback_question(q_num, sub, q_text, current_module) ==
    LET Result(cm, is_part_a) ==
            [accept |-> Accepted(cm.text),
             question |-> Question(q_num, sub, cm.text,
                                   IF cm.marks # NoMarks THEN cm.marks
                                   ELSE IF is_part_a THEN DefaultMarksA ELSE DefaultMarksB,
                                   IF is_part_a THEN "A" ELSE "B",
                                   IF is_part_a THEN NoModule ELSE current_module)]
    IN  Result(capped_marks(JoinWs(q_text)), q_num <= 10)

RECURSIVE FallbackFrom(_, _, _)
FallbackFrom(lines, i, current_module) ==
    LET Keep(q) == IF q.accept THEN <<q.question>> ELSE <<>>
        Collect(m, c) ==
            Keep(fallback_question(m.q_num, m.sub, m.text \o c.text, current_module))
                \o FallbackFrom(lines, c.next, current_module)
        Match(m) ==
            IF ~m.found \/ ~IsLetter(m.text[1]) THEN FallbackFrom(lines, i + 1, current_module)
            ELSE Collect(m, Continuation(lines, i + 1))
        Line(line) ==
            IF line = <<>> THEN FallbackFrom(lines, i + 1, current_module)
            ELSE IF line[1].k = "module" THEN FallbackFrom(lines, i + 1, line[1].v)
            ELSE Match(q_match(line))
    IN  IF i > Len(lines) THEN <<>> ELSE Line(Strip(lines[i]))

fallback_extraction(text) == FallbackFrom(SplitLines(text), 1, NoModule)

\* text[:30].lower().strip(): the atoms of the first 30 characters, the last
\* one cut, in lower case
KeyLen == 30
RECURSIVE TextKey(_, _)
TextKey(text, n) ==
    LET Cut(a, len) ==
            IF len > n THEN <<[k |-> a.k, v |-> a.v, cut |-> n, lower |-> TRUE]>>
            ELSE <<[k |-> a.k, v |-> a.v, cut |-> len, lower |-> TRUE]>>
                    \o TextKey(Tail(text), n - len)
    IN  IF text = <<>> \/ n = 0 THEN <<>> ELSE Cut(text[1], AtomLen(text[1]))

dedup_key(q) == <<q.question_number, Strip(TextKey(q.text, KeyLen))>>

\* _deduplicate with a set seen that stays empty
RECURSIVE deduplicate_from_unseen(_, _)
deduplicate_from_unseen(questions, seen) ==
    IF questions = <<>> THEN <<>>
    ELSE (IF TextLen(questions[1].text) >= MinTextLen THEN <<questions[1]>> ELSE <<>>)
             \o deduplicate_from_unseen(Tail(questions), seen)

\* _deduplicate: the first question of every key, when its text has 10
\* characters or more
RECURSIVE deduplicate_from(_, _)
deduplicate_from(questions, seen) ==
    LET Step(q, key) ==
            IF key \notin seen /\ TextLen(q.text) >= MinTextLen
            THEN <<q>> \o deduplicate_from(Tail(questions), seen \cup {key})
            ELSE deduplicate_from(Tail(questions), seen)
    IN  IF questions = <<>> THEN <<>> ELSE Step(questions[1], dedup_key(questions[1]))

deduplicate(questions) == deduplicate_from(questions, {})

\* The papers that are extracted: an optional "PART A" line, the lines of
\* Part A, an optional "PART B" line or a line of dots, an optional module
\* line, the lines of Part B.  A Part A line is "N. Explanations" (plain),
\* "N. What" (short), "N. Explanations (99marks)" (over) or "N. Explanations"
\* with "0 marks" on the next line (zero); a Part B line is
\* "N a) Explanations" (plain), "N a) What" (short) or
\* "N a) Explanations 14" (bare).  The third line of Part A repeats the number
\* of the first, the second line of Part B the number of the first; at most
\* one line of Part A and one line of Part B is not plain.
MaxALines == 3
MaxBLines == 2
AKinds == {"plain", "short", "over", "zero"}
BKinds == {"plain", "short", "bare"}

ALine(n, kind) ==
    <<Atom("num", n), Atom("dot", 0), Atom("sp", 0)>> \o
        CASE kind = "plain" -> <<Atom("word", 12)>>
          [] kind = "short" -> <<Atom("word", 4)>>
          [] kind = "over" -> <<Atom("word", 12), Atom("sp", 0), Atom("lpar", 0),
                                Atom("num", 99), Atom("marks", 0), Atom("rpar", 0)>>
          [] kind = "zero" -> <<Atom("word", 12), Atom("nl", 0), Atom("num", 0),
                                Atom("sp", 0), Atom("marks", 0)>>

BLine(n, kind) ==
    <<Atom("num", n), Atom("sp", 0), Atom("sub", 0), Atom("rpar", 0), Atom("sp", 0)>> \o
        CASE kind = "plain" -> <<Atom("word", 12)>>
          [] kind = "short" -> <<Atom("word", 4)>>
          [] kind = "bare" -> <<Atom("word", 12), Atom("sp", 0), Atom("num", 14)>>

\* the sequences of at most n kinds, at most one of them not plain
KindSeqs(kinds, n) ==
    {ks \in UNION {[1..k -> kinds] : k \in 0..n} :
        Cardinality({i \in DOMAIN ks : ks[i] # "plain"}) <= 1}
MidLines == {<<>>, <<<<Atom("partb", 0)>>>>, <<<<Atom("dot", 0), Atom("dot", 0)>>>>}
ModuleLines == {<<>>, <<<<Atom("module", 1)>>>>, <<<<Atom("module", 2)>>>>}

Paper(head, as, mid, mod, bs) ==
    JoinLines((IF head THEN <<<<Atom("parta", 0)>>>> ELSE <<>>)
              \o [i \in 1..Len(as) |-> ALine(IF i = 3 THEN 1 ELSE i, as[i])]
              \o mid \o mod
              \o [i \in 1..Len(bs) |-> BLine(IF i = 2 THEN 11 ELSE 10 + i, bs[i])])

\* extract_questions, one step after the other: the primary extraction, the
\* fallback when it found fewer than 5 questions, the deduplication
MinQuestions == 5

ExtractCall(text) ==
    [op |-> "extract_questions", text |-> text, pc |-> "start", cleaned_text |-> <<>>,
     part_a_questions |-> <<>>, part_b_questions |-> <<>>, fallback |-> FALSE,
     questions |-> <<>>]

InitExtract ==
    /\ Stored
    /\ tc = NoTier
    /\ \E head \in BOOLEAN, as \in KindSeqs(AKinds, MaxALines), mid \in MidLines,
          mod \in ModuleLines, bs \in KindSeqs(BKinds, MaxBLines) :
            call = ExtractCall(Paper(head, as, mid, mod, bs))

ExtractPrimary ==
    /\ call.op = "extract_questions" /\ call.pc = "start"
    /\ \E cleaned_text \in {clean_text(call.text)} :
         \E part_a_questions \in {extract_part_a(cleaned_text)},
            part_b_questions \in {extract_part_b(cleaned_text)} :
              call' = [call EXCEPT !.pc = "primary", !.cleaned_text = cleaned_text,
                                   !.part_a_questions = part_a_questions,
                                   !.part_b_questions = part_b_questions,
                                   !.questions = part_a_questions \o part_b_questions]
    /\ UNCHANGED <<papers, topic_cluster, normalized_text, clusters, wk, last, tc>>

\* the fallback questions added to the primary ones
FallbackExtraction_extend ==
    /\ call.op = "extract_questions" /\ call.pc = "primary"
    /\ Len(call.questions) < MinQuestions
    /\ call' = [call EXCEPT !.pc = "fallback", !.fallback = TRUE,
                            !.questions = call.questions \o fallback_extraction(call.cleaned_text)]
    /\ UNCHANGED <<papers, topic_cluster, normalized_text, clusters, wk, last, tc>>

FallbackExtraction ==
    /\ call.op = "extract_questions" /\ call.pc = "primary"
    /\ Len(call.questions) < MinQuestions
    /\ call' = [call EXCEPT !.pc = "fallback", !.fallback = TRUE,
                            !.questions = fallback_extraction(call.cleaned_text)]
    /\ UNCHANGED <<papers, topic_cluster, normalized_text, clusters, wk, last, tc>>

Deduplicate ==
    /\ call.op = "extract_questions"
    /\ \/ call.pc = "primary" /\ ~(Len(call.questions) < MinQuestions)
       \/ call.pc = "fallback"
    /\ call' = [call EXCEPT !.pc = "done", !.questions = deduplicate(call.questions)]
    /\ UNCHANGED <<papers, topic_cluster, normalized_text, clusters, wk, last, tc>>

NextExtract == ExtractPrimary \/ FallbackExtraction \/ Deduplicate

SpecExtract == InitExtract /\ [][NextExtract]_vars

\* The example paper: "PART A", "1. What is entropy? (3 marks)",
\* "2. Define enthalpy. 3", "PART B", "Module -1",
\* "11 a) Derive the Carnot efficiency expression. 14", each followed by a
\* space or by a line break
ExampleItems ==
    <<<<Atom("parta", 0)>>,
      <<Atom("num", 1), Atom("dot", 0), Atom("sp", 0), Atom("word", 4), Atom("sp", 0),
        Atom("lower", 2), Atom("sp", 0), Atom("lower", 7), Atom("qm", 0), Atom("sp", 0),
        Atom("lpar", 0), Atom("num", 3), Atom("sp", 0), Atom("marks", 0), Atom("rpar", 0)>>,
      <<Atom("num", 2), Atom("dot", 0), Atom("sp", 0), Atom("word", 6), Atom("sp", 0),
        Atom("lower", 8), Atom("dot", 0), Atom("sp", 0), Atom("num", 3)>>,
      <<Atom("partb", 0)>>,
      <<Atom("module", 1)>>,
      <<Atom("num", 11), Atom("sp", 0), Atom("sub", 0), Atom("rpar", 0), Atom("sp", 0),
        Atom("word", 6), Atom("sp", 0), Atom("lower", 3), Atom("sp", 0), Atom("word", 6),
        Atom("sp", 0), Atom("lower", 10), Atom("sp", 0), Atom("lower", 10), Atom("dot", 0),
        Atom("sp", 0), Atom("num", 14)>> >>

RECURSIVE JoinItems(_, _)
JoinItems(items, seps) ==
    IF Len(items) = 1 THEN items[1]
    ELSE items[1] \o <<Atom(seps[1], 0)>> \o JoinItems(Tail(items), Tail(seps))

InitExample ==
    /\ Stored
    /\ tc = NoTier
    /\ \E seps \in [1..(Len(ExampleItems) - 1) -> {"sp", "nl"}] :
          call = ExtractCall(JoinItems(ExampleItems, seps))

SpecExample == InitExample /\ [][NextExtract]_vars

(***************************************************************************)
(* AnalysisPipeline._classify_ktu_questions: the module number given to    *)
(* one question.  The subject has an exam pattern (has_pattern) with a     *)
(* pattern_config, or none; q_data carries the question number, the part   *)
(* and the module_hint of the extractor (NoModule: no hint).               *)
(***************************************************************************)
DefaultModule == 1

\* q_data['module_number']
classify_module(q_data, has_pattern, pattern_config) ==
    LET Or(module_num) == IF module_num # NoModule THEN module_num ELSE DefaultModule
    IN  Or(IF has_pattern /\ q_data.part # ""
           THEN get_module_for_question(q_data.question_number, q_data.part, pattern_config)
           ELSE NoModule)

ModuleHints == {NoModule} \cup 1..5

InitClassify ==
    /\ Stored
    /\ tc = NoTier
    /\ \E question_number \in QuestionNumbers, part \in {"A", "B"},
          module_hint \in ModuleHints, has_pattern \in BOOLEAN,
          pattern_config \in PatternConfigs :
          /\ part = "A" => module_hint = NoModule
          /\ ~has_pattern => pattern_config = <<>>
          /\ call = [op |-> "classify_ktu_questions", done |-> FALSE,
                     q_data |-> [question_number |-> question_number, part |-> part,
                                 module_hint |-> module_hint],
                     has_pattern |-> has_pattern, pattern_config |-> pattern_config,
                     module_number |-> NoModule]

ClassifyKtuQuestions ==
    /\ call.op = "classify_ktu_questions"
    /\ ~call.done
    /\ call' = [call EXCEPT !.done = TRUE,
                  !.module_number = classify_module(call.q_data, call.has_pattern,
                                                    call.pattern_config)]
    /\ UNCHANGED <<papers, topic_cluster, normalized_text, clusters, wk, last, tc>>

NextClassify == ClassifyKtuQuestions

SpecClassify == InitClassify /\ [][NextClassify]_vars

(***************************************************************************)
(* EmbeddingService.get_embeddings_batch.  A text is a number, its         *)
(* embedding the list encode(text); the entry None of the result is the    *)
(* empty list.  load_ok: _load_model returns; failing: the chunks (counted *)
(* from 0) whose model.encode raises.                                      *)
(***************************************************************************)
DefaultBatchSize == 32
MaxChunks == 3      \* texts of at most MaxChunks chunks

NoVector == <<>>

\* model.encode(text).tolist()
encode(text) == <<text + 1, 2 * text>>

\* the entries added for a chunk whose encoding raised, dropped
failed_batch_dropped(batch) == <<>>

\* [None] * len(batch)
failed_batch(batch) == [k \in 1..Len(batch) |-> NoVector]

\* the loop of get_embeddings_batch from index i (0-based) on
RECURSIVE encode_batches(_, _, _, _)
encode_batches(texts, batch_size, failing, i) ==
    IF i >= Len(texts) THEN <<>>
    ELSE LET Add(batch) ==
                 (IF (i \div batch_size) \in failing THEN failed_batch(batch)
                  ELSE [k \in 1..Len(batch) |-> encode(batch[k])])
                 \o encode_batches(texts, batch_size, failing, i + batch_size)
         IN  Add(SubSeq(texts, i + 1, Min({i + batch_size, Len(texts)})))

get_embeddings_batch(texts, batch_size, load_ok, failing) ==
    IF load_ok THEN encode_batches(texts, batch_size, failing, 0)
    ELSE [k \in 1..Len(texts) |-> NoVector]

BatchSizes == {1, 2, DefaultBatchSize}
TextValues == 0..2

\* the texts: n texts whose values go round TextValues upwards or downwards
InitEmbed ==
    /\ Stored
    /\ tc = NoTier
    /\ \E batch_size \in BatchSizes, step \in {1, 2} :
       \E n \in 0..(MaxChunks * batch_size) :
          call = [op |-> "get_embeddings_batch", done |-> FALSE,
                  texts |-> [k \in 1..n |-> (k * step) % Cardinality(TextValues)],
                  batch_size |-> batch_size, load_ok |-> TRUE, failing |-> {},
                  result |-> <<>>]

\* the call returns; load_ok and failing record what the model did
GetEmbeddingsBatch ==
    /\ call.op = "get_embeddings_batch"
    /\ ~call.done
    /\ \E load_ok \in BOOLEAN, failing \in SUBSET (0..(MaxChunks - 1)) :
          /\ ~load_ok => failing = {}
          /\ \A c \in failing : c * call.batch_size < Len(call.texts)
          /\ call' = [call EXCEPT !.done = TRUE, !.load_ok = load_ok,
                        !.failing = failing,
                        !.result = get_embeddings_batch(call.texts, call.batch_size,
                                                        load_ok, failing)]
    /\ UNCHANGED <<papers, topic_cluster, normalized_text, clusters, wk, last, tc>>

NextEmbed == GetEmbeddingsBatch

SpecEmbed == InitEmbed /\ [][NextEmbed]_vars

(***************************************************************************)
(* One paper analysis run: analyze_paper_task (entry "task") or the loop   *)
(* body of AnalyzeSubjectView.post (entry "view") around                   *)
(* AnalysisPipeline.analyze_paper.  A step of the pipeline returns or      *)
(* raises an exception with a message; the writes to the database succeed. *)
(* call.e is the exception in flight ("": none), call.job the stored       *)
(* AnalysisJob (status "none": not created).                               *)
(***************************************************************************)
Messages == {"PyMuPDF not available", "'text'", "no such table"}

\* the except clause of analyze_paper with the job left as it was
analyze_paper_except_job_unsaved(c) ==
    [c EXCEPT !.paper.status = "failed", !.paper.processing_error = c.e,
              !.pc = "caller_except"]

\* the except clause of analyze_paper; the exception is raised again
analyze_paper_except(c) ==
    [c EXCEPT !.job.status = "failed", !.job.error_message = c.e,
              !.paper.status = "failed", !.paper.processing_error = c.e,
              !.pc = "caller_except"]

InitRun ==
    /\ Stored
    /\ tc = NoTier
    /\ \E entry \in {"task", "view"}, exists \in BOOLEAN, is_ktu \in BOOLEAN,
          status \in {"pending", "completed", "failed"} :
          /\ entry = "view" => exists /\ status = "pending"
          /\ call = [op |-> "analyze_paper", entry |-> entry, exists |-> exists,
                     is_ktu |-> is_ktu, pc |-> "start", e |-> "",
                     paper |-> [status |-> status,
                                processing_error |->
                                    IF status = "failed" THEN "'text'" ELSE ""],
                     job |-> [status |-> "none", error_message |-> ""]]

\* Paper.objects.get and the save of the status PROCESSING; the task returns
\* when the paper does not exist
StartRun ==
    /\ call.op = "analyze_paper" /\ call.pc = "start"
    /\ call' = IF call.exists
               THEN [call EXCEPT !.paper.status = "processing", !.pc = "create_job"]
               ELSE [call EXCEPT !.pc = "returned"]
    /\ UNCHANGED <<papers, topic_cluster, normalized_text, clusters, wk, last, tc>>

\* AnalysisJob.objects.create and the start of step 1
CreateJob ==
    /\ call.op = "analyze_paper" /\ call.pc = "create_job"
    /\ call' = [call EXCEPT !.job.status = "extracting", !.pc = "extract"]
    /\ UNCHANGED <<papers, topic_cluster, normalized_text, clusters, wk, last, tc>>

\* step 1 with PyMuPDF: it returns, or it raises and the fallback runs
Extract ==
    /\ call.op = "analyze_paper" /\ call.pc = "extract"
    /\ \E ok \in BOOLEAN :
          call' = IF ok THEN [call EXCEPT !.job.status = "classifying", !.pc = "classify"]
                  ELSE [call EXCEPT !.pc = "fallback"]
    /\ UNCHANGED <<papers, topic_cluster, normalized_text, clusters, wk, last, tc>>

\* the fallback extractor returns
FallbackExtract ==
    /\ call.op = "analyze_paper" /\ call.pc = "fallback"
    /\ call' = [call EXCEPT !.job.status = "classifying", !.pc = "classify"]
    /\ UNCHANGED <<papers, topic_cluster, normalized_text, clusters, wk, last, tc>>

\* step 2 returns: _classify_ktu_questions or classify_questions_semantic
Classify ==
    /\ call.op = "analyze_paper" /\ call.pc = "classify"
    /\ call' = [call EXCEPT !.job.status = "analyzing", !.pc = "create_questions"]
    /\ UNCHANGED <<papers, topic_cluster, normalized_text, clusters, wk, last, tc>>

\* steps 3 and 4 return: the questions are created, paper and job are saved
\* as COMPLETED and analyze_paper returns the job
Complete ==
    /\ call.op = "analyze_paper" /\ call.pc = "create_questions"
    /\ call' = [call EXCEPT !.paper.status = "completed", !.job.status = "completed",
                            !.pc = "returned"]
    /\ UNCHANGED <<papers, topic_cluster, normalized_text, clusters, wk, last, tc>>

\* a step inside the try of analyze_paper raises
StepRaises ==
    /\ call.op = "analyze_paper"
    /\ call.pc \in {"fallback", "classify", "create_questions"}
    /\ \E e \in Messages : call' = [call EXCEPT !.e = e, !.pc = "except"]
    /\ UNCHANGED <<papers, topic_cluster, normalized_text, clusters, wk, last, tc>>

AnalyzePaperExcept ==
    /\ call.op = "analyze_paper" /\ call.pc = "except"
    /\ call' = analyze_paper_except(call)
    /\ UNCHANGED <<papers, topic_cluster, normalized_text, clusters, wk, last, tc>>

\* except Exception of analyze_paper_task and of the view: the paper is saved
\* as FAILED and the exception ends there
CallerExcept ==
    /\ call.op = "analyze_paper" /\ call.pc = "caller_except"
    /\ call' = [call EXCEPT !.paper.status = "failed", !.paper.processing_error = call.e,
                            !.pc = "returned"]
    /\ UNCHANGED <<papers, topic_cluster, normalized_text, clusters, wk, last, tc>>

NextRun ==
    \/ StartRun \/ CreateJob \/ Extract \/ FallbackExtract \/ Classify \/ Complete
    \/ StepRaises \/ AnalyzePaperExcept \/ CallerExcept

SpecRun == InitRun /\ [][NextRun]_vars

(***************************************************************************)
(* QuestionExtractor._deduplicate on lists of questions as extract_questions*)
(* passes them: every text has 10 characters or more.  The texts are       *)
(* "Explanations", "thermodynamics", a text of 38 characters and the same  *)
(* text with one more word, which has the same first 30 characters.        *)
(***************************************************************************)
MaxQuestions == 3   \* lists of at most MaxQuestions questions

LongText == <<Atom("word", 12), Atom("sp", 0), Atom("lower", 12), Atom("sp", 0),
              Atom("lower", 12)>>
DedupTexts ==
    {<<Atom("word", 12)>>, <<Atom("lower", 14)>>, LongText,
     LongText \o <<Atom("sp", 0), Atom("lower", 4)>>}
DedupQuestions ==
    {Question(n, "", text, DefaultMarksA, "A", NoModule) : n \in {1, 2}, text \in DedupTexts}

InitDedup ==
    /\ Stored
    /\ tc = NoTier
    /\ \E n \in 0..MaxQuestions : \E questions \in [1..n -> DedupQuestions] :
          call = [op |-> "deduplicate", pc |-> 0, questions |-> questions,
                  once |-> <<>>, twice |-> <<>>]

\* _deduplicate(questions)
DeduplicateOnce ==
    /\ call.op = "deduplicate" /\ call.pc = 0
    /\ call' = [call EXCEPT !.pc = 1, !.once = deduplicate(call.questions)]
    /\ UNCHANGED <<papers, topic_cluster, normalized_text, clusters, wk, last, tc>>

\* _deduplicate(_deduplicate(questions))
DeduplicateTwice ==
    /\ call.op = "deduplicate" /\ call.pc = 1
    /\ call' = [call EXCEPT !.pc = 2, !.twice = deduplicate(call.once)]
    /\ UNCHANGED <<papers, topic_cluster, normalized_text, clusters, wk, last, tc>>

NextDedup == DeduplicateOnce \/ DeduplicateTwice

SpecDedup == InitDedup /\ [][NextDedup]_vars

(***************************************************************************)
(* _create_topic_cluster of both services on a group of questions of       *)
(* subject s1, module 1: the question whose text the stored cluster holds  *)
(* as its representative.  The first question of the group is its seed.    *)
(***************************************************************************)
InitRepresentative ==
    /\ Stored
    /\ tc = NoTier
    /\ \E kind \in Kinds, n \in 1..4 :
       \E questions \in [1..n -> {q \in QIds : QSubject(q) = "s1" /\ QModule[q] = 1}] :
          /\ \A i, j \in 1..n : i # j => questions[i] # questions[j]
          /\ call = [op |-> "create_topic_cluster", kind |-> kind, questions |-> questions,
                     done |-> FALSE, representative |-> NoCluster]

CreateTopicCluster ==
    /\ call.op = "create_topic_cluster"
    /\ ~call.done
    /\ call' = [call EXCEPT !.done = TRUE,
                  !.representative =
                      IF call.kind = "clusterer" THEN Representative(call.questions)
                      ELSE ServiceCluster("w1", "s1", 1, call.questions).representative]
    /\ UNCHANGED <<papers, topic_cluster, normalized_text, clusters, wk, last, tc>>

NextRepresentative == CreateTopicCluster

SpecRepresentative == InitRepresentative /\ [][NextRepresentative]_vars

(***************************************************************************)
(* Both resolvers on one exam pattern of the structure                     *)
(* {part_a: {marks_per_question, questions: {number: module}}, part_b:     *)
(* {...}}: get_module_from_question gets the pattern, and                  *)
(* ExamPattern.get_module_for_question finds it in pattern_config.         *)
(***************************************************************************)
\* a dict of a part as the JSONField holds it: its keys are strings like the
\* question number they are compared with
JsonDict(d) == [k \in {<<f>> : f \in DOMAIN d} |-> d[k[1]]]

\* pattern_config = pattern
PatternAsConfig(pattern) ==
    [k \in DOMAIN pattern |->
        IF k \in {"part_a", "part_b"} THEN JsonDict(pattern[k]) ELSE pattern[k]]

\* the standard pattern and one with a single question in each part
StructuredPatterns ==
    {KTU_STANDARD_PATTERN,
     [name |-> "custom",
      part_a |-> [marks_per_question |-> 2, questions |-> (<<"1">> :> 2)],
      part_b |-> [marks_per_question |-> 12, questions |-> (<<"2">> :> 1)]]}

InitBoth ==
    /\ Stored
    /\ tc = NoTier
    /\ \E question_number \in QuestionNumbers, part \in Parts, pattern \in StructuredPatterns :
          call = [op |-> "resolve_both", question_number |-> question_number,
                  part |-> part, pattern |-> pattern, done |-> FALSE,
                  from_question |-> NoModule, for_question |-> NoModule]

ResolveBoth ==
    /\ call.op = "resolve_both"
    /\ ~call.done
    /\ call' = [call EXCEPT !.done = TRUE,
                  !.from_question = get_module_from_question(call.question_number,
                                                             call.part, call.pattern),
                  !.for_question = get_module_for_question(call.question_number, call.part,
                                                           PatternAsConfig(call.pattern))]
    /\ UNCHANGED <<papers, topic_cluster, normalized_text, clusters, wk, last, tc>>

NextBoth == ResolveBoth

SpecBoth == InitBoth /\ [][NextBoth]_vars

(***************************************************************************)
(* Properties.                                                             *)
(***************************************************************************)
\* the threshold update_priority_tier compares with: the value of the key, or
\* the default when the argument is None or lacks the key
Threshold(k, default) ==
    IF tc.tier_thresholds = None THEN default ELSE Get(tc.tier_thresholds, k, default)

\* C1: for every frequency_count f >= 0 and every thresholds argument,
\* update_priority_tier sets priority_tier to 1 exactly when f >= tier1, to 2
\* exactly when f < tier1 and f >= tier2, to 3 exactly when f is below both and
\* f >= tier3, and to 4 exactly when f is below all three; it is always one of
\* 1, 2, 3, 4.
C1_TierFunction ==
    tc.priority_tier # NoCluster =>
        LET f == tc.frequency_count
            tier1 == Threshold("tier_1", 4)
            tier2 == Threshold("tier_2", 3)
            tier3 == Threshold("tier_3", 2)
            tier == tc.priority_tier
        IN  /\ tier \in {1, 2, 3, 4}
            /\ tier = 1 <=> f >= tier1
            /\ tier = 2 <=> (f < tier1 /\ f >= tier2)
            /\ tier = 3 <=> (f < tier1 /\ f < tier2 /\ f >= tier3)
            /\ tier = 4 <=> (f < tier1 /\ f < tier2 /\ f < tier3)

\* update_priority_tier has acted on a count equal to the tier_1 threshold of a
\* full triple whose thresholds are not in descending order
C1_Witness ==
    /\ tc.tier_thresholds # None
    /\ DOMAIN tc.tier_thresholds = TierKeys
    /\ tc.tier_thresholds.tier_1 < tc.tier_thresholds.tier_3
    /\ tc.frequency_count = tc.tier_thresholds.tier_1
    /\ tc.priority_tier = 1

\* C2: with default thresholds, a stored cluster whose members come from
\* exactly 4 distinct years has priority_tier 1, and one whose members all come
\* from exactly 1 year has priority_tier 4, however many questions it has.
C2_TierFromDistinctYears ==
    \A c \in SubjectClusters("s1") :
        LET years == {QYear(q) : q \in Members(c)}
        IN  /\ Cardinality(years) = 4 => c.priority_tier = 1
            /\ Cardinality(years) = 1 => c.priority_tier = 4

\* C3: in every state, each stored cluster's frequency_count is the number of
\* distinct years in its years_appeared.
C3_FrequencyIsDistinctYears ==
    \A c \in clusters : c.frequency_count = Cardinality(c.years_appeared)

\* C4: in every state, each stored cluster's priority_tier is the tier function
\* of its current frequency_count and its subject's thresholds.
C4_TierNeverStale ==
    \A c \in clusters :
        c.priority_tier = update_priority_tier(c.frequency_count,
                                               get_tier_thresholds(c.subject))

\* C5: the groups a scan forms are a partition of its input: every group is
\* non-empty and lies in one module, no question is in two groups or twice in
\* one, and when the run returns every input question is in some group.
C5_GroupsPartitionInput ==
    \A w \in Workers :
        LET r == wk[w]
            G == DOMAIN r.groups
        IN  /\ \A k \in G : /\ r.groups[k] # <<>>
                             /\ Cardinality(Range(r.groups[k])) = Len(r.groups[k])
                             /\ \A q \in Range(r.groups[k]) :
                                    QModule[q] = QModule[r.groups[k][1]]
            /\ \A k, j \in G : k # j => Range(r.groups[k]) \cap Range(r.groups[j]) = {}
            /\ r.pc = "return" => UNION {Range(r.groups[k]) : k \in G} = Range(r.snap)

\* a run returns after it formed several groups, one of them of several questions
C5_Witness ==
    \E w \in Workers :
        /\ wk[w].pc = "return"
        /\ Len(wk[w].groups) >= 2
        /\ \E k \in DOMAIN wk[w].groups : Len(wk[w].groups[k]) >= 2

C7_FailedRunKeepsOldSet ==
    \A w \in Workers : wk[w].pc = "raise" => ~wk[w].deleted /\ ~wk[w].created

\* C8: what a reader concurrent with a run computed from the subject's clusters
\* is what the set stored before the run gives or what the set stored at the
\* end of the run gives.
C8_ReaderSeesOldOrNew ==
    \A w \in Workers :
        (wk[w].pc \in {"return", "raise"} /\ wk[w].read)
            => wk[w].seen \in {wk[w].old, get_priority_distribution(wk[w].subject)}

\* C9: when a run returns and the subject's questions did not change meanwhile,
\* the stored clusters of the subject are exactly the groups the run computed
\* from the questions; none when it computed none.
C9_StoredSetIsComputedSet ==
    \A w \in Workers :
        (wk[w].pc = "return" /\ ~wk[w].dirty)
            => {Members(c) : c \in SubjectClusters(wk[w].subject)}
                   = {Range(wk[w].groups[k]) : k \in DOMAIN wk[w].groups}

\* the subject a step of worker w's run is for
RunSubject(w) == IF wk[w].pc = "idle" THEN wk'[w].subject ELSE wk[w].subject

\* C10: a step of a clustering run for subject X leaves the clusters of every
\* other subject Y, and the topic_cluster link of Y's questions, unchanged.
C10_OtherSubjectsUnchanged ==
    [][\A w \in Workers :
          (wk'[w] # wk[w] /\ papers' = papers) =>
              \A s \in Subjects \ {RunSubject(w)} :
                  /\ SubjectClusters(s)' = SubjectClusters(s)
                  /\ \A q \in QIds : QSubject(q) = s => topic_cluster'[q] = topic_cluster[q]]_vars

\* the run for s1 has deleted the clusters of s1 while clusters of s2 are stored
\* and linked
C10_Witness ==
    /\ wk["w1"].pc = "scan"
    /\ wk["w1"].subject = "s1"
    /\ wk["w1"].deleted
    /\ SubjectClusters("s2") # {}
    /\ \E q \in QIds : QSubject(q) = "s2" /\ topic_cluster[q] # NoCluster

\* a similarity equal to 1.0
IsOne(sim) ==
    IF sim.kind = "ratio" THEN sim.num = sim.den
    ELSE sim.num > 0 /\ sim.num * sim.num = sim.den

\* C11: the similarity of a question with itself is 1.0 (the verdict of
\* _are_similar is True), also when its normalized text is empty and when
\* its embedding is absent or the zero vector.
C11_SelfSimilarityIsOne ==
    call.done =>
        /\ (call.op = "calculate_similarity" /\ call.emb1 = call.emb2
                /\ call.text1 = call.text2)
            => IsOne(call.result)
        /\ (call.op = "are_similar" /\ call.q1 = call.q2) => call.similar

\* C12: two questions whose normalized token sets have a Jaccard ratio of at
\* least the threshold are judged similar whatever their embeddings are
\* (for _are_similar: two texts that the containment stage does not decide).
C12_JaccardDecidesBeforeEmbedding ==
    call.done =>
        /\ (call.op = "calculate_similarity"
                /\ AtLeast(text_similarity(call.text1, call.text2), call.threshold))
            => call.similar
        /\ (call.op = "are_similar"
                /\ SvcNormLen[call.q1] >= ShortText /\ SvcNormLen[call.q2] >= ShortText
                /\ AtLeast(calculate_text_similarity(SvcTokens(call.q1), SvcTokens(call.q2)),
                           call.threshold))
            => call.similar

\* the example texts of the spec, as word sets and as texts of TextIds
ExampleA == {"define", "entropy", "thermodynamic", "system"}
ExampleB == {"explain", "entropy", "concept", "thermodynamics"}
ExamplePair ==
    \/ call.op = "calculate_similarity" /\ {call.text1, call.text2} = {ExampleA, ExampleB}
    \/ call.op = "are_similar" /\ {call.q1, call.q2} = {8, 9}
NoEmbedding ==
    \/ call.emb1 = <<>> \/ call.emb2 = <<>>
    \/ call.op = "calculate_similarity" /\ (Dot(call.emb1, call.emb1) = 0
                                            \/ Dot(call.emb2, call.emb2) = 0)
ExampleJaccard ==
    IF call.op = "calculate_similarity" THEN text_similarity(call.text1, call.text2)
    ELSE calculate_text_similarity(SvcTokens(call.q1), SvcTokens(call.q2))

C14_NormalizeIdempotent ==
    (call.op = "normalize" /\ call.pc = 2) => call.twice = call.once

\* C15: the tier is monotone in the frequency: for every thresholds argument,
\* in any order, and frequencies f1 <= f2, tier(f2) <= tier(f1).
C15_TierMonotone ==
    (/\ call.op = "update_priority_tier"
     /\ call.priority_tier[1] # NoCluster
     /\ call.priority_tier[2] # NoCluster
     /\ call.frequency_count[1] <= call.frequency_count[2])
        => call.priority_tier[2] <= call.priority_tier[1]

\* thresholds out of order (tier_1 below tier_3) and two counts with two tiers
C15_Witness ==
    /\ call.op = "update_priority_tier"
    /\ call.tier_thresholds # None
    /\ DOMAIN call.tier_thresholds = TierKeys
    /\ call.tier_thresholds.tier_1 < call.tier_thresholds.tier_2
    /\ call.tier_thresholds.tier_2 < call.tier_thresholds.tier_3
    /\ call.frequency_count[1] < call.frequency_count[2]
    /\ call.priority_tier[1] # NoCluster
    /\ call.priority_tier[2] # NoCluster
    /\ call.priority_tier[2] < call.priority_tier[1]

\* the lookup of the called function on another question number
Resolve(question_number) ==
    IF call.op = "get_module_from_question"
    THEN get_module_from_question(question_number, call.part, call.given)
    ELSE get_module_for_question(question_number, call.part, call.given)

\* the table of the part, {} when the pattern has no such part
PartTable ==
    LET k == part_key(call.part)
    IN  IF k \notin DOMAIN call.given THEN <<>>
        ELSE IF call.op = "get_module_from_question"
             THEN Get(call.given[k], "questions", <<>>)
             ELSE call.given[k]

AllDigits(n) == n # <<>> /\ \A i \in DOMAIN n : IsNumberDigit(n[i])

\* C16: the result is the module the table of the part lists for the digits
\* the question number starts with, so a trailing letter changes nothing;
\* it is None when the part or the number is not listed; the pattern is
\* left as it was.
C16_ResolveByNumericPrefix ==
    (call.op \in {"get_module_from_question", "get_module_for_question"} /\ call.done) =>
        LET qn == call.question_number
            n == SubSeq(qn, 1, Len(qn) - 1)
        IN  /\ (AllDigits(qn) /\ qn \in DOMAIN PartTable) => call.result = PartTable[qn]
            /\ (AllDigits(qn) /\ qn \notin DOMAIN PartTable) => call.result = NoModule
            /\ (AllDigits(n) /\ ~IsNumberDigit(qn[Len(qn)])) => call.result = Resolve(n)
            /\ (qn = <<>> \/ ~IsNumberDigit(qn[1])) => call.result = NoModule
            /\ call.pattern = call.given

\* "11a" under part B of the standard pattern resolves to module 1
C16_Witness ==
    /\ call.op = "get_module_from_question" /\ call.done
    /\ call.question_number = <<"1", "1", "a">> /\ call.part = "B"
    /\ call.given = KTU_STANDARD_PATTERN
    /\ call.result = 1


Extracted == call.op = "extract_questions" /\ call.pc = "done"

\* C17: every question extract_questions returns has marks in 1..14
C17_MarksWithinCap ==
    Extracted => \A i \in DOMAIN call.questions : call.questions[i].marks \in 1..14

\* the questions of every stage of extract_questions
StageQuestions ==
    {call.part_a_questions[i] : i \in DOMAIN call.part_a_questions}
        \cup {call.part_b_questions[i] : i \in DOMAIN call.part_b_questions}
        \cup {call.questions[i] : i \in DOMAIN call.questions}

\* C18: the text of every question that a stage of extract_questions keeps,
\* and so of every question it returns, has 10 characters or more and starts
\* with a letter
C18_AcceptedTextOnly ==
    call.op = "extract_questions" =>
        \A q \in StageQuestions :
            /\ q.text # <<>>
            /\ q.text[1].k \in {"word", "marks", "sub", "parta", "partb", "module"}
            /\ TextLen(q.text) >= 10

\* a paper with the short question "What" is extracted to a list without it
C18_Witness ==
    /\ Extracted
    /\ \E i \in DOMAIN call.text : call.text[i] = Atom("word", 4)
    /\ call.questions # <<>>

\* the entries that are the first of their key among those of 10 characters or more
FirstOfKey(questions) ==
    {i \in DOMAIN questions :
        /\ TextLen(questions[i].text) >= 10
        /\ \A j \in 1..(i - 1) :
              TextLen(questions[j].text) >= 10 => dedup_key(questions[j]) # dedup_key(questions[i])}

\* out is the list of those entries of in, in their order
IsDeduplicated(out, in) ==
    /\ Len(out) = Cardinality(FirstOfKey(in))
    /\ \A i \in FirstOfKey(in) : out[Cardinality({j \in FirstOfKey(in) : j <= i})] = in[i]

\* C19: with 5 primary questions or more the result is the deduplicated list
\* of the Part A questions followed by the Part B questions and the fallback
\* does not run; with fewer the result is the deduplicated list of the
\* fallback questions alone
C19_PrimaryOrFallback ==
    Extracted =>
        IF Len(call.part_a_questions) + Len(call.part_b_questions) >= 5
        THEN /\ ~call.fallback
             /\ IsDeduplicated(call.questions, call.part_a_questions \o call.part_b_questions)
        ELSE /\ call.fallback
             /\ IsDeduplicated(call.questions, fallback_extraction(call.cleaned_text))

\* fewer than 5 primary questions, one of them not among the questions returned
C19_Witness ==
    /\ Extracted
    /\ call.fallback
    /\ \E i \in DOMAIN call.part_a_questions :
          \A j \in DOMAIN call.questions : call.questions[j] # call.part_a_questions[i]
    /\ call.questions # <<>>

HasAtom(text, ks) == \E i \in DOMAIN text : text[i].k \in ks
Primary == call.op = "extract_questions" /\ call.pc # "start"

C21_ExampleThreeQuestions ==
    Extracted =>
        /\ Len(call.questions) = 3
        /\ call.questions[1].question_number = <<1, "">>
        /\ call.questions[1].part = "A" /\ call.questions[1].marks = 3
        /\ Len(call.questions[1].text) >= 6
        /\ SubSeq(call.questions[1].text, 1, 6) = SubSeq(ExampleItems[2], 4, 9)
        /\ call.questions[2].question_number = <<2, "">>
        /\ call.questions[2].part = "A" /\ call.questions[2].marks = 3
        /\ call.questions[3].question_number = <<11, "a">>
        /\ call.questions[3].part = "B" /\ call.questions[3].marks = 14
        /\ call.questions[3].module_hint = 1

\* the module the subject's pattern gives the question of a finished call
\* (NoModule: no pattern, or no entry for the number and part)
PatternModule ==
    IF call.has_pattern
    THEN get_module_for_question(call.q_data.question_number, call.q_data.part,
                                 call.pattern_config)
    ELSE NoModule

\* C22: a Part B question gets the module of its pattern entry when the subject
\* has a pattern with an entry for (number, part), also when the marker says
\* otherwise, and the module of the enclosing module marker when there is no
\* such entry
C22_PatternElseMarker ==
    (call.op = "classify_ktu_questions" /\ call.done /\ call.q_data.part = "B") =>
        /\ PatternModule # NoModule => call.module_number = PatternModule
        /\ (PatternModule = NoModule /\ call.q_data.module_hint # NoModule) =>
               call.module_number = call.q_data.module_hint

\* C23: get_embeddings_batch returns one entry for each text, in the order of
\* the texts: None for the texts of the chunks of batch_size texts whose
\* encoding failed, and its embedding for every other text, before and after
\* such a chunk
C23_OneEntryPerText ==
    (call.op = "get_embeddings_batch" /\ call.done) =>
        /\ Len(call.result) = Len(call.texts)
        /\ call.load_ok =>
             \A k \in 1..Len(call.texts) :
                call.result[k] = IF ((k - 1) \div call.batch_size) \in call.failing
                                 THEN NoVector ELSE encode(call.texts[k])

\* three chunks of 32 texts, the second of which failed
C23_Witness ==
    /\ call.op = "get_embeddings_batch" /\ call.done
    /\ call.batch_size = DefaultBatchSize
    /\ Len(call.texts) > 2 * DefaultBatchSize
    /\ call.load_ok /\ call.failing = {1}
    /\ call.result[DefaultBatchSize] # NoVector
    /\ call.result[DefaultBatchSize + 1] = NoVector
    /\ call.result[2 * DefaultBatchSize + 1] # NoVector

FirstSeen(questions) ==
    {i \in DOMAIN questions :
        \A j \in 1..(i - 1) : dedup_key(questions[j]) # dedup_key(questions[i])}

\* C25: _deduplicate returns the entries of its input that are the first of
\* their key (question number, first 30 characters of the text in lower case,
\* stripped), in the order of the input, and nothing else; applied to its own
\* result it returns that result
C25_FirstOfEachKey ==
    (call.op = "deduplicate" /\ call.pc >= 1) =>
        /\ Len(call.once) = Cardinality(FirstSeen(call.questions))
        /\ \A i \in FirstSeen(call.questions) :
              call.once[Cardinality({j \in FirstSeen(call.questions) : j <= i})]
                  = call.questions[i]
        /\ call.pc = 2 => call.twice = call.once

\* three questions of one number: the second has the first 30 characters of
\* the first and is dropped, the third has another text and is kept
C25_Witness ==
    /\ call.op = "deduplicate" /\ call.pc = 2
    /\ Len(call.questions) = 3 /\ Len(call.once) = 2
    /\ call.questions[1].text = LongText
    /\ call.questions[2].text # LongText
    /\ dedup_key(call.questions[2]) = dedup_key(call.questions[1])
    /\ call.once = <<call.questions[1], call.questions[3]>>

\* the test of the scan of run r on a seed s and a candidate q: the clusterer
\* compares the normalized texts it holds, the service calls _are_similar
ScanSimilar(r, s, q) ==
    IF r.kind = "clusterer"
    THEN AtLeast(calculate_similarity(s, q, [x \in QIds |-> normalize(x)]), ClustererThreshold)
    ELSE are_similar(s, q)

\* the seeds of the groups formed before group k in the scan of its module
EarlierSeeds(r, k) ==
    {r.groups[j][1] : j \in {i \in 1..(k - 1) : QModule[r.groups[i][1]] = QModule[r.groups[k][1]]}}

\* C26: in a scan the seed of a group is its first member in input order and
\* comes after the seeds of the earlier groups; a member that is not the seed
\* is similar to the seed of its group and to no earlier seed; a seed is
\* similar to no earlier seed.  No other member decides a membership.
C26_EarliestSimilarSeed ==
    \A w \in Workers :
        \A k \in DOMAIN wk[w].groups :
            LET r == wk[w]
                seed == r.groups[k][1]
            IN  /\ \A s \in EarlierSeeds(r, k) :
                      /\ IndexOf(r.snap, s) < IndexOf(r.snap, seed)
                      /\ ~ScanSimilar(r, s, seed)
                /\ \A q \in Range(r.groups[k]) \ {seed} :
                      /\ IndexOf(r.snap, seed) < IndexOf(r.snap, q)
                      /\ ScanSimilar(r, seed, q)
                      /\ \A s \in EarlierSeeds(r, k) : ~ScanSimilar(r, s, q)

\* a scan put a question into a group of its own although it is similar to a
\* member of an earlier group: it is not similar to the seed of that group
C26_Witness ==
    \E w \in Workers :
        /\ wk[w].pc = "return"
        /\ \E k, j \in DOMAIN wk[w].groups :
              /\ j < k
              /\ Len(wk[w].groups[k]) = 1
              /\ \E m \in Range(wk[w].groups[j]) \ {wk[w].groups[j][1]} :
                    /\ ScanSimilar(wk[w], m, wk[w].groups[k][1])
                    /\ ScanSimilar(wk[w], wk[w].groups[k][1], m)
              /\ ~ScanSimilar(wk[w], wk[w].groups[j][1], wk[w].groups[k][1])

\* C27: the representative of a cluster that is created is one of its
\* questions, and no question of the cluster has a longer text
C27_RepresentativeIsLongest ==
    (call.op = "create_topic_cluster" /\ call.done) =>
        /\ call.representative \in Range(call.questions)
        /\ \A q \in Range(call.questions) : QTextLen[q] <= QTextLen[call.representative]

\* C28: when cluster_subject_questions of TopicClusterer is about to return
\* and no Question row came or went during the run, every question of the
\* subject with a module is linked to a cluster that the run stored for the
\* module of the question
C28_EveryQuestionLinked ==
    \A w \in Workers :
        (wk[w].kind = "clusterer" /\ wk[w].pc = "return" /\ ~wk[w].dirty) =>
            \A q \in ClustererQuestions(wk[w].subject) :
                \E c \in SubjectClusters(wk[w].subject) :
                    /\ topic_cluster[q] = c.id
                    /\ c.module = QModule[q]
                    /\ \E k \in DOMAIN wk[w].groups : c.id = ClusterId(w, wk[w].groups[k][1])

\* C29: when the runs of both workers for subject s1 have ended, the stored
\* state is one that a single run leaves: every stored cluster is linked from
\* the questions of the group it was created for (as many as its
\* frequency_count), so no group has a second cluster, and every link of a
\* question leads to a stored cluster
C29_InterleavedAsSingleRun ==
    (\A w \in Workers : wk[w].pc = "idle") =>
        /\ \A c \in SubjectClusters("s1") : Cardinality(Members(c)) = c.frequency_count
        /\ \A q \in SubjectQuestions("s1") :
              topic_cluster[q] # NoCluster => \E c \in clusters : c.id = topic_cluster[q]

\* C30: on a pattern of the documented structure, for every question number
\* and part, ExamPattern.get_module_for_question with the pattern as its
\* pattern_config returns what get_module_from_question returns
C30_ResolversAgree ==
    (call.op = "resolve_both" /\ call.done) => call.for_question = call.from_question
=============================================================================
